---- MODULE Spec2Model ----
(***************************************************************************)
(* Model of the validator of llm_defender (bittensor subnet 14):           *)
(* src/llm_defender/core/validators/validator.py, class                    *)
(* PromptInjectionValidator.  Scores are Python/torch floats in the code;  *)
(* here they are exact rationals <<n, d>> (d > 0, lowest terms), so that   *)
(* range checks and the EMA are decided exactly.  uids are 0-based in the  *)
(* code and index the registry; sequences here are 1-based, so uid u is    *)
(* position u + 1.                                                         *)
(***************************************************************************)
EXTENDS Integers, Sequences, FiniteSets, TLC

VARIABLES
    metagraph,                  \* registry snapshot: sequence of [hotkey, stake, ip]
    scores,                     \* self.scores: sequence of rationals
    hotkeys,                    \* self.hotkeys: Some(sequence of hotkeys), or None
    blacklisted_miner_hotkeys,  \* Some(sequence of hotkeys), or None
    max_targets,                \* self.max_targets
    target_group,               \* self.target_group (the cursor)
    miner_responses,            \* self.miner_responses: Some(hotkey -> records), or None
    step,                       \* self.step
    last_updated_block,         \* self.last_updated_block
    alpha,                      \* self.neuron_config.alpha, a rational
    state_file,                 \* content of <base_path>/state.pt, None when absent
    miner_file,                 \* content of <base_path>/miners.pickle, None when absent
    validator_min_stake,        \* the miner's self.validator_min_stake
    prompt,                     \* self.prompt: Some(prompt entry), or None
    hotkey_blacklisted,         \* the miner's self.hotkey_blacklisted
    recovered,                  \* contents of the *.autorecovery files
    pc,                         \* position of the control thread
    ret,                        \* outcome of the last operation
    score_args,                 \* inputs of the calculate_score call under check
    cycle,                      \* pages returned since the cursor was last 0
    rounds                      \* number of process_responses calls so far

vars == << metagraph, scores, hotkeys, blacklisted_miner_hotkeys, max_targets,
           target_group, miner_responses, step, last_updated_block, alpha,
           state_file, miner_file, validator_min_stake, prompt, hotkey_blacklisted, recovered, pc, ret, score_args, cycle, rounds >>

\* Python's None is the empty tuple and a value x that may be None is the
\* 1-tuple Some(x); a rational <<n, d>> is never None and is left unwrapped.
None == << >>
Some(x) == << x >>
Val(o) == o[1]

-----------------------------------------------------------------------------
(* Exact rational arithmetic standing for the float arithmetic of the code. *)

RECURSIVE GCD(_, _)
GCD(a, b) == IF b = 0 THEN a ELSE GCD(b, a % b)

Abs(x) == IF x < 0 THEN -x ELSE x

Norm(n, d) ==
    LET g == GCD(Abs(n), Abs(d))
        s == IF d < 0 THEN -1 ELSE 1
    IN  << (s * n) \div g, (s * d) \div g >>

R(n, d) == Norm(n, d)
RInt(k) == << k, 1 >>
RAdd(x, y) == Norm(x[1] * y[2] + y[1] * x[2], x[2] * y[2])
RSub(x, y) == Norm(x[1] * y[2] - y[1] * x[2], x[2] * y[2])
RMul(x, y) == Norm(x[1] * y[1], x[2] * y[2])
RDiv(x, y) == Norm(x[1] * y[2], x[2] * y[1])
RLe(x, y) == x[1] * y[2] <= y[1] * x[2]
RLt(x, y) == x[1] * y[2] < y[1] * x[2]
RGe(x, y) == RLe(y, x)
RGt(x, y) == RLt(y, x)
Zero == RInt(0)
One == RInt(1)
InUnit(x) == RLe(Zero, x) /\ RLe(x, One)

-----------------------------------------------------------------------------
(* Scoring: calculate_score and what it calls.                              *)

\* self.timeout = 12
Timeout == 12

\* score_weights = {"distance": 0.85, "speed": 0.15}
WeightDistance == R(85, 100)
WeightSpeed == R(15, 100)

\* base.utils.validate_numerical_value(value, float, 0.0, 1.0)
validate_numerical_value(value, lo, hi) == RLe(lo, value) /\ RLe(value, hi)

\* scoring.process.calculate_subscore_speed(timeout, response_time)
process_calculate_subscore_speed(timeout, response_time) ==
    LET t == IF RGt(response_time, timeout) THEN timeout ELSE response_time
    IN  RSub(One, RDiv(t, timeout))

\* a speed subscore that does not cap the response time
calculate_subscore_speed_Uncapped(response_time) ==
    RSub(One, RDiv(response_time, RInt(Timeout)))

\* PromptInjectionValidator.calculate_subscore_speed(hotkey, response_time)
calculate_subscore_speed(response_time) ==
    LET t == IF RGt(response_time, RInt(Timeout)) THEN RInt(Timeout) ELSE response_time
    IN  RSub(One, RDiv(t, RInt(Timeout)))

\* scoring.process.get_engine_response_object(...): the score result; every
\* field defaults to 0.0
get_engine_response_object(total, fd, fs, dp, sp, rd, rs) ==
    [ total |-> total, distance |-> fd, speed |-> fs,
      distance_penalty |-> dp, speed_penalty |-> sp,
      raw_distance |-> rd, raw_speed |-> rs ]

DefaultResponseObject ==
    get_engine_response_object(Zero, Zero, Zero, Zero, Zero, Zero, Zero)

\* apply_penalty that starts an unknown hotkey without penalties
apply_penalty_ZeroDefault(history, ext) ==
    IF history = None
    THEN [ similarity |-> Zero, base |-> Zero, duplicate |-> Zero ]
    ELSE [ similarity |-> ext.similarity, base |-> ext.base,
           duplicate |-> ext.duplicate ]

\* apply_penalty: history is Some(the hotkey's entry of self.miner_responses),
\* None when self.miner_responses is empty or has no entry for the hotkey; ext is
\* what the three penalty sub-scorers return for this response.
apply_penalty(history, ext) ==
    IF history = None
    THEN [ similarity |-> RInt(5), base |-> RInt(5), duplicate |-> RInt(5) ]
    ELSE [ similarity |-> RAdd(Zero, ext.similarity),
           base |-> RAdd(Zero, ext.base),
           duplicate |-> RAdd(Zero, ext.duplicate) ]

\* the distance multiplier without its floor at penalties of 20 and more
distance_multiplier_NoFloor(base_penalty) ==
    IF RGt(base_penalty, Zero)
    THEN RSub(One, RDiv(RDiv(base_penalty, RInt(2)), RInt(10)))
    ELSE One

\* get_response_penalties: the two multipliers from the penalty triple
distance_multiplier(base_penalty) ==
    IF RGe(base_penalty, RInt(20)) THEN Zero
    ELSE IF RGt(base_penalty, Zero)
         THEN RSub(One, RDiv(RDiv(base_penalty, RInt(2)), RInt(10)))
         ELSE One

speed_multiplier(similarity_penalty, duplicate_penalty) ==
    LET sum == RAdd(similarity_penalty, duplicate_penalty)
    IN  IF RGe(sum, RInt(20)) THEN Zero
        ELSE IF RGt(sum, Zero)
             THEN RSub(One, RDiv(RDiv(sum, RInt(2)), RInt(10)))
             ELSE One

get_response_penalties(history, ext) ==
    LET p == apply_penalty(history, ext)
    IN  [ distance |-> distance_multiplier(p.base),
          speed |-> speed_multiplier(p.similarity, p.duplicate) ]

\* calculate_penalized_scores with the two weights exchanged
calculate_penalized_scores_SwappedWeights(distance_score, speed_score, distance_penalty, speed_penalty) ==
    LET final_distance_score == RMul(RMul(WeightSpeed, distance_score), distance_penalty)
        final_speed_score == RMul(RMul(WeightDistance, speed_score), speed_penalty)
    IN  [ total |-> RAdd(final_distance_score, final_speed_score),
          distance |-> final_distance_score,
          speed |-> final_speed_score ]

\* calculate_penalized_scores
calculate_penalized_scores(distance_score, speed_score, distance_penalty, speed_penalty) ==
    LET final_distance_score == RMul(RMul(WeightDistance, distance_score), distance_penalty)
        final_speed_score == RMul(RMul(WeightSpeed, speed_score), speed_penalty)
    IN  [ total |-> RAdd(final_distance_score, final_speed_score),
          distance |-> final_distance_score,
          speed |-> final_speed_score ]

\* calculate_score without its fail-closed checks and with the subscores
\* added unweighted
calculate_score_Unchecked(distance, response_time, history, ext) ==
    LET distance_score == IF distance = None THEN Zero ELSE distance
        speed_score == process_calculate_subscore_speed(RInt(Timeout), response_time)
        pen == get_response_penalties(history, ext)
    IN  get_engine_response_object(
            RAdd(RMul(distance_score, pen.distance), RMul(speed_score, pen.speed)),
            RMul(distance_score, pen.distance), RMul(speed_score, pen.speed),
            pen.distance, pen.speed, distance_score, speed_score)

\* a value brought into [0, 1]
Clamp(value) == IF RLt(value, Zero) THEN Zero ELSE IF RGt(value, One) THEN One ELSE value

\* calculate_score that clamps out-of-range subscores instead of returning
\* the default result
calculate_score_Clamped(distance, response_time, history, ext) ==
    LET distance_score == Clamp(IF distance = None THEN Zero ELSE distance)
        speed_score == Clamp(process_calculate_subscore_speed(RInt(Timeout), response_time))
        pen == get_response_penalties(history, ext)
        fin == calculate_penalized_scores(distance_score, speed_score,
                                          pen.distance, pen.speed)
    IN  get_engine_response_object(
            Clamp(fin.total), Clamp(fin.distance), Clamp(fin.speed),
            pen.distance, pen.speed, distance_score, speed_score)

\* calculate_score(response, target, prompt, response_time, hotkey): distance
\* is what the comparator returns for (response, target), None when it
\* signals an invalid response.
calculate_score(distance, response_time, history, ext) ==
    LET distance_score == IF distance = None THEN Zero ELSE distance
        speed_score == process_calculate_subscore_speed(RInt(Timeout), response_time)
    IN  IF \/ ~validate_numerical_value(distance_score, Zero, One)
           \/ ~validate_numerical_value(speed_score, Zero, One)
        THEN DefaultResponseObject
        ELSE LET pen == get_response_penalties(history, ext)
                 fin == calculate_penalized_scores(distance_score, speed_score,
                                                   pen.distance, pen.speed)
             IN  IF \/ ~validate_numerical_value(fin.total, Zero, One)
                    \/ ~validate_numerical_value(fin.distance, Zero, One)
                    \/ ~validate_numerical_value(fin.speed, Zero, One)
                 THEN DefaultResponseObject
                 ELSE get_engine_response_object(
                          fin.total, fin.distance, fin.speed,
                          pen.distance, pen.speed, distance_score, speed_score)

-----------------------------------------------------------------------------
(* Target selection: get_uids_to_query and the blacklist it reads.          *)

\* the registry has at most MaxWorkers workers
MaxWorkers == 3

\* max_targets below the paging threshold ranges over 1..MaxPage
MaxPage == 2

\* "if self.max_targets < 256"; also the default of max_targets
PageThreshold == 256

UnsetIp == "0.0.0.0"
IpValues == { UnsetIp, "10.0.0.1" }
StakeValues == { -1, 0, 1 }

\* hotkeys are numbers; MaxWorkers + 1 of them exist
HotkeyIds == 1 .. (MaxWorkers + 1)

Range(seq) == { seq[i] : i \in 1 .. Len(seq) }

\* list.index(x): the first position of x
IndexOf(seq, x) ==
    CHOOSE i \in 1 .. Len(seq) : seq[i] = x /\ \A j \in 1 .. (i - 1) : seq[j] # x

\* metagraph.hotkeys
MetagraphHotkeys(m) == [ i \in 1 .. Len(m) |-> m[i].hotkey ]

\* a stake filter that keeps positive stakes only
uids_with_stake_Positive(m, p) == m[p].stake > 0

\* uids_with_stake = self.metagraph.total_stake >= 0.0
uids_with_stake(m, p) == m[p].stake >= 0

\* invalid_uids: True where the ip is not "0.0.0.0"
invalid_uids(m, p) == m[p].ip # UnsetIp

\* blacklisted_uids: the metagraph position of every blacklisted hotkey
\* that is in the metagraph, in blacklist order
RECURSIVE blacklisted_uids_of(_, _)
blacklisted_uids_of(m, bl) ==
    IF bl = << >> THEN << >>
    ELSE IF Head(bl) \in Range(MetagraphHotkeys(m))
         THEN << IndexOf(MetagraphHotkeys(m), Head(bl)) >> \o blacklisted_uids_of(m, Tail(bl))
         ELSE blacklisted_uids_of(m, Tail(bl))

blacklisted_uids(m, blacklist) ==
    IF blacklist # None /\ Val(blacklist) # << >>
    THEN blacklisted_uids_of(m, Val(blacklist))
    ELSE << >>

\* blacklisted_uids_tensor: True where the uid is not blacklisted
blacklisted_uids_tensor(m, blacklist, p) == p \notin Range(blacklisted_uids(m, blacklist))

\* the filter that forgets the blacklist
uids_to_filter_NoBlacklist(m, blacklist, p) ==
    ~ ( ~invalid_uids(m, p) \/ ~uids_with_stake(m, p) )

\* uids_to_filter = logical_not(~blacklisted | ~invalid | ~stake): the keep flag
uids_to_filter(m, blacklist, p) ==
    ~ ( \/ ~blacklisted_uids_tensor(m, blacklist, p)
        \/ ~invalid_uids(m, p)
        \/ ~uids_with_stake(m, p) )

\* all_axons as the caller passes it: metagraph.axons, one axon per uid
all_axons(m) == [ p \in 1 .. Len(m) |-> p ]

\* the axons whose keep flag is the given one, in the order of all_axons
FilterSeq(axons, m, blacklist, keep) ==
    LET Flag(p) == uids_to_filter(m, blacklist, p) = keep
    IN  SelectSeq(axons, Flag)

\* uids_to_query before paging: the axons whose keep flag is set
filtered_axons(m, blacklist) == FilterSeq(all_axons(m), m, blacklist, TRUE)

\* the filtered axons without those that are blacklisted
final_axons_to_filter_Partition(m, blacklist) ==
    LET NotBlacklisted(p) == blacklisted_uids_tensor(m, blacklist, p)
    IN  SelectSeq(FilterSeq(all_axons(m), m, blacklist, FALSE), NotBlacklisted)

\* final_axons_to_filter
final_axons_to_filter(m, blacklist) == FilterSeq(all_axons(m), m, blacklist, FALSE)

\* [self.metagraph.hotkeys.index(axon.hotkey) for axon in axons]
uids_of_axons(m, axons) ==
    [ i \in 1 .. Len(axons) |-> IndexOf(MetagraphHotkeys(m), m[axons[i]].hotkey) ]

Min(a, b) == IF a <= b THEN a ELSE b

\* uids_to_query[start_idx:end_idx], 0-based and end-exclusive
Slice(seq, start_idx, end_idx) == SubSeq(seq, start_idx + 1, end_idx)

\* advancing the cursor past the next page
next_target_group_Skip(tg) == tg + 2

\* self.target_group += 1
next_target_group(tg) == tg + 1

\* get_uids_to_query with the bounds check before the empty-slice check
get_uids_to_query_BoundsFirst(m, blacklist, mt, tg) ==
    LET uids_to_query == filtered_axons(m, blacklist)
        uids_not_to_query == uids_of_axons(m, final_axons_to_filter(m, blacklist))
        start_idx == mt * tg
        end_idx == Min(Len(uids_to_query), mt * (tg + 1))
        full(page, group) ==
            [ outcome |-> "return",
              result |-> << page, uids_of_axons(m, page),
                            blacklisted_uids(m, blacklist), uids_not_to_query >>,
              target_group |-> group ]
    IN  IF mt < PageThreshold
        THEN IF start_idx >= Len(uids_to_query)
             THEN [ outcome |-> "IndexError", result |-> << >>, target_group |-> tg ]
             ELSE IF end_idx >= Len(uids_to_query)
                  THEN full(Slice(uids_to_query, start_idx, Len(uids_to_query)), 0)
                  ELSE full(Slice(uids_to_query, start_idx, end_idx), next_target_group(tg))
        ELSE full(uids_to_query, tg)

\* the whole of get_uids_to_query: the result and the new cursor
get_uids_to_query(m, blacklist, mt, tg) ==
    LET uids_to_query == filtered_axons(m, blacklist)
        uids_not_to_query == uids_of_axons(m, final_axons_to_filter(m, blacklist))
        start_idx == mt * tg
        end_idx == Min(Len(uids_to_query), mt * (tg + 1))
        full(page, group) ==
            [ outcome |-> "return",
              result |-> << page, uids_of_axons(m, page),
                            blacklisted_uids(m, blacklist), uids_not_to_query >>,
              target_group |-> group ]
    IN  IF mt < PageThreshold
        THEN IF start_idx = end_idx
             THEN [ outcome |-> "return", result |-> << << >>, << >> >>,
                    target_group |-> tg ]
             ELSE IF start_idx >= Len(uids_to_query)
                  THEN [ outcome |-> "IndexError", result |-> << >>,
                         target_group |-> tg ]
                  ELSE IF end_idx >= Len(uids_to_query)
                       THEN full(Slice(uids_to_query, start_idx, Len(uids_to_query)), 0)
                       ELSE full(Slice(uids_to_query, start_idx, end_idx), next_target_group(tg))
        ELSE full(uids_to_query, tg)

-----------------------------------------------------------------------------
(* The blacklist sources and check_blacklisted_miner_hotkeys.               *)

\* base.utils.validate_miner_blacklist: a non-empty list of objects that
\* each have a hotkey field
validate_miner_blacklist(body) ==
    /\ body # << >>
    /\ \A i \in 1 .. Len(body) : "hotkey" \in DOMAIN body[i]

\* _get_local_miner_blacklist: src is the file miner_blacklist.json
\* (kind "absent", "oserror", "notutf8", "notjson" or "json" with its body)
get_local_miner_blacklist(src) ==
    IF src.kind = "json" /\ validate_miner_blacklist(src.body) THEN src.body ELSE << >>

\* _get_remote_miner_blacklist: src is the answer of the blacklist API (kind
\* "timeout", "connection", "status", "notjson" or "json" with its body)
get_remote_miner_blacklist(src) ==
    IF src.kind = "json" /\ validate_miner_blacklist(src.body) THEN src.body ELSE << >>

\* the exception that leaves _get_local_miner_blacklist: its try block
\* catches OSError and json.JSONDecodeError; file.read() with
\* encoding="utf-8" raises UnicodeDecodeError, a ValueError, on bytes that
\* are not UTF-8
get_local_miner_blacklist_outcome(src) ==
    IF src.kind = "notutf8" THEN "UnicodeDecodeError" ELSE "return"

\* _get_remote_miner_blacklist ends with except Exception: it returns
get_remote_miner_blacklist_outcome(src) == "return"

RECURSIVE HotkeysOf(_)
HotkeysOf(list) ==
    IF list = << >> THEN << >>
    ELSE IF "hotkey" \in DOMAIN Head(list)
         THEN << Head(list).hotkey >> \o HotkeysOf(Tail(list))
         ELSE HotkeysOf(Tail(list))

\* check_blacklisted_miner_hotkeys: the new self.blacklisted_miner_hotkeys
check_blacklisted_miner_hotkeys(local, remote) ==
    Some(HotkeysOf(get_local_miner_blacklist(local) \o get_remote_miner_blacklist(remote)))

\* how check_blacklisted_miner_hotkeys ends: the local source is read first
check_blacklisted_miner_hotkeys_outcome(local, remote) ==
    IF get_local_miner_blacklist_outcome(local) # "return"
    THEN get_local_miner_blacklist_outcome(local)
    ELSE get_remote_miner_blacklist_outcome(remote)

-----------------------------------------------------------------------------
(* The reputation vector: process_responses, check_hotkeys, and the state   *)
(* file (save_state, load_state, reset_validator_state).                    *)

\* torch.zeros_like(self.metagraph.S)
init_default_scores(m) == [ p \in 1 .. Len(m) |-> Zero ]

\* scoring.process.assign_score_for_uid(scores, uid, alpha, score, weight):
\* the new vector, the old score and the unweighted new score
assign_score_for_uid(sc, uid, a, raw, weight) ==
    LET old == sc[uid]
        new == RAdd(RMul(a, raw), RMul(RSub(One, a), old))
    IN  [ scores |-> [ sc EXCEPT ![uid] = new ],
          old_score |-> old,
          unweighted_new_score |-> new ]

\* the call with the round weight passed as the smoothing factor
UpdateScore_WeightAsAlpha(sc, uid, a, raw, weight) ==
    assign_score_for_uid(sc, uid, weight, raw, a)

\* the call with uid 0 in place of processed_uids[i]
UpdateScore_FirstUid(sc, uid, a, raw, weight) ==
    assign_score_for_uid(sc, 1, a, raw, weight)

\* the call of assign_score_for_uid in process_responses:
\* (self.scores, processed_uids[i], self.neuron_config.alpha, score, query["weight"])
UpdateScore(sc, uid, a, raw, weight) ==
    assign_score_for_uid(sc, uid, a, raw, weight)

\* self.miner_responses[hotkey] as apply_penalty reads it
HistoryOf(mr, hotkey) ==
    IF mr = None THEN None
    ELSE IF DOMAIN Val(mr) = {} THEN None
    ELSE IF hotkey \notin DOMAIN Val(mr) THEN None
    ELSE Some(Val(mr)[hotkey])

\* the value of F(e), with e evaluated once
Let(e, F(_)) == CHOOSE y \in { F(x) : x \in { e } } : TRUE

\* what one pass of the loop leaves: the vector after the update of uid with
\* raw, the record of the update, and the uid among the valid or the
\* invalid ones
AfterUpdate(acc, uid, raw, scored, u) ==
    [ scores |-> u.scores,
      log |-> Append(acc.log,
                [ uid |-> uid, raw |-> raw, old |-> u.old_score,
                  unweighted |-> u.unweighted_new_score,
                  stored |-> u.scores[uid], scored |-> scored ]),
      valid_uids |-> IF scored THEN Append(acc.valid_uids, uid) ELSE acc.valid_uids,
      invalid_uids |-> IF scored THEN acc.invalid_uids ELSE Append(acc.invalid_uids, uid) ]

\* a pass of the loop that scores every response with calculate_score
ProcessOne_ScoreInvalid(acc, m, mr, a, weight, uid, response) ==
    Let(calculate_score(response.distance, response.response_time,
                        HistoryOf(mr, m[uid].hotkey), response.ext).total,
        LAMBDA total :
           Let(UpdateScore(acc.scores, uid, a, total, weight),
               LAMBDA u : AfterUpdate(acc, uid, total, TRUE, u)))

\* one pass of the loop of process_responses: response i of the list
ProcessOne(acc, m, mr, a, weight, uid, response) ==
    IF ~response.valid
    THEN Let(UpdateScore(acc.scores, uid, a, Zero, weight),
             LAMBDA u : AfterUpdate(acc, uid, Zero, FALSE, u))
    ELSE Let(calculate_score(response.distance, response.response_time,
                             HistoryOf(mr, m[uid].hotkey), response.ext).total,
             LAMBDA total :
                Let(UpdateScore(acc.scores, uid, a, total, weight),
                    LAMBDA u : AfterUpdate(acc, uid, total, TRUE, u)))

RECURSIVE ProcessLoop(_, _, _, _, _, _, _)
ProcessLoop(acc, m, mr, a, weight, uids, responses) ==
    IF responses = << >> THEN acc
    ELSE Let(ProcessOne(acc, m, mr, a, weight, Head(uids), Head(responses)),
             LAMBDA next :
                ProcessLoop(next, m, mr, a, weight, Tail(uids), Tail(responses)))

\* process_responses(processed_uids, query, responses, synapse_uuid)
process_responses(sc, m, mr, a, weight, uids, responses) ==
    ProcessLoop([ scores |-> sc, log |-> << >>, valid_uids |-> << >>,
                  invalid_uids |-> << >> ],
                m, mr, a, weight, uids, responses)

\* the loop of check_hotkeys over the positions i, i + 1, ... of the
\* registry: self.scores[i] = 0.0 where the hotkey changed; indexing past
\* the end of self.scores raises IndexError
RECURSIVE ResetChanged(_, _, _, _)
ResetChanged(sc, old, current, i) ==
    IF i > Len(current) THEN [ outcome |-> "return", scores |-> sc ]
    ELSE IF old[i] # current[i]
         THEN IF i > Len(sc)
              THEN [ outcome |-> "IndexError", scores |-> sc ]
              ELSE ResetChanged([ sc EXCEPT ![i] = Zero ], old, current, i + 1)
         ELSE ResetChanged(sc, old, current, i + 1)

\* check_hotkeys that keeps the scores when the lengths differ
check_hotkeys_KeepOnMismatch(hk, sc, m) ==
    [ outcome |-> "return", scores |-> sc, hotkeys |-> Some(MetagraphHotkeys(m)) ]

\* the branch of check_hotkeys for snapshots of another length than the registry
check_hotkeys_mismatch(hk, sc, m) ==
    [ outcome |-> "return", scores |-> init_default_scores(m),
      hotkeys |-> Some(MetagraphHotkeys(m)) ]

\* the branch of check_hotkeys for snapshots as long as the registry
check_hotkeys_same_length(hk, sc, m) ==
    LET r == ResetChanged(sc, Val(hk), MetagraphHotkeys(m), 1)
    IN  [ outcome |-> r.outcome, scores |-> r.scores,
          hotkeys |-> IF r.outcome = "return" THEN Some(MetagraphHotkeys(m)) ELSE hk ]

\* check_hotkeys: the outcome, the new scores and the new snapshot
check_hotkeys(hk, sc, m) ==
    IF hk # None /\ Val(hk) # << >>
    THEN IF Len(Val(hk)) = Len(m)
         THEN check_hotkeys_same_length(hk, sc, m)
         ELSE check_hotkeys_mismatch(hk, sc, m)
    ELSE [ outcome |-> "return", scores |-> sc, hotkeys |-> Some(MetagraphHotkeys(m)) ]

\* the keys of the dict that save_state writes
StateFields == { "step", "scores", "hotkeys", "last_updated_block",
                 "blacklisted_miner_hotkeys" }

\* the keys that load_state reads without asking whether they are there
RequiredFields == { "step", "scores", "hotkeys", "last_updated_block" }

\* a state file: readable says whether torch.load returns, fields are the
\* keys of the dict it returns
StateFile(readable, fields, st, sc, hk, lub, bl) ==
    [ readable |-> readable, fields |-> fields, step |-> st, scores |-> sc,
      hotkeys |-> hk, last_updated_block |-> lub,
      blacklisted_miner_hotkeys |-> bl ]

\* save_state: the file that torch.save writes
save_state(st, sc, hk, lub, bl) == Some(StateFile(TRUE, StateFields, st, sc, hk, lub, bl))

\* the order in which the dict of save_state is serialized
StateFieldOrder == << "step", "scores", "hotkeys", "last_updated_block",
                      "blacklisted_miner_hotkeys" >>

\* a write that leaves every serialized field readable on its own
writing_state_Readable(k, st, sc, hk, lub, bl) ==
    Some(StateFile(TRUE, { StateFieldOrder[i] : i \in 1 .. k }, st, sc, hk, lub, bl))

\* state.pt while torch.save is writing it: the file was opened for writing
\* (and so truncated) and holds the first k fields of the dict; the
\* serialized dict is one pickled object, which torch.load cannot read
\* before it is complete
writing_state(k, st, sc, hk, lub, bl) ==
    Some(StateFile(FALSE, { StateFieldOrder[i] : i \in 1 .. k }, st, sc, hk, lub, bl))

\* whether the try block of load_state runs to its end
Loadable(file) == file.readable /\ RequiredFields \subseteq file.fields

\* the path that reset_validator_state renames the state file to
AutorecoveryPath == "state.pt-<timestamp>.autorecovery"

\* reset_validator_state that leaves the file where it is
reset_validator_state_NoRename(file, m, rec) ==
    [ scores |-> init_default_scores(m), step |-> 0, last_updated_block |-> 0,
      hotkeys |-> None, blacklisted_miner_hotkeys |-> None,
      state_file |-> Some(file), recovered |-> rec ]

\* reset_validator_state that leaves step and last_updated_block as
\* load_state had assigned them from the file
reset_validator_state_KeepLoaded(file, m, rec) ==
    [ scores |-> init_default_scores(m),
      step |-> IF file.readable /\ "step" \in file.fields THEN file.step ELSE 0,
      last_updated_block |-> 0,
      hotkeys |-> None, blacklisted_miner_hotkeys |-> None,
      state_file |-> None,
      recovered |-> rec \cup { [ path |-> AutorecoveryPath, content |-> file ] } ]

\* reset_validator_state(state_path)
reset_validator_state(file, m, rec) ==
    [ scores |-> init_default_scores(m), step |-> 0, last_updated_block |-> 0,
      hotkeys |-> None, blacklisted_miner_hotkeys |-> None,
      state_file |-> None,
      recovered |-> rec \cup { [ path |-> AutorecoveryPath, content |-> file ] } ]

\* load_state: cur holds the fields as they are before the call
load_state(cur, m) ==
    IF cur.state_file = None
    THEN [ cur EXCEPT !.scores = init_default_scores(m) ]
    ELSE LET file == Val(cur.state_file)
         IN  IF Loadable(file)
             THEN [ cur EXCEPT
                      !.step = file.step,
                      !.scores = file.scores,
                      !.hotkeys = file.hotkeys,
                      !.last_updated_block = file.last_updated_block,
                      !.blacklisted_miner_hotkeys =
                          IF "blacklisted_miner_hotkeys" \in file.fields
                          THEN file.blacklisted_miner_hotkeys ELSE @ ]
             ELSE reset_validator_state(file, m, cur.recovered)

-----------------------------------------------------------------------------
(* The response history: self.miner_responses, None or a dict from hotkey   *)
(* to the list of that hotkey's records, oldest first.                      *)

\* the number of records truncate_miner_state keeps for a hotkey
HistoryCap == 100

\* history[-n:]
LastRecords(history, n) ==
    IF Len(history) <= n THEN history
    ELSE SubSeq(history, Len(history) - n + 1, Len(history))

\* the append of a record to the history of a hotkey, as the round does it
\* after scoring
append_miner_response(mr, hotkey, record) ==
    IF mr = None THEN Some([ h \in { hotkey } |-> << record >> ])
    ELSE Some([ h \in DOMAIN Val(mr) \cup { hotkey } |->
                  IF h = hotkey
                  THEN IF h \in DOMAIN Val(mr) THEN Append(Val(mr)[h], record)
                       ELSE << record >>
                  ELSE Val(mr)[h] ])

\* truncate_miner_state that keeps every record
truncate_miner_state_KeepAll(mr) == mr

\* truncate_miner_state with [:100] for [-100:]
truncate_miner_state_Head(mr) ==
    IF mr = None \/ DOMAIN Val(mr) = {} THEN mr
    ELSE Some([ h \in DOMAIN Val(mr) |->
                   SubSeq(Val(mr)[h], 1, Min(HistoryCap, Len(Val(mr)[h]))) ])

\* truncate_miner_state
truncate_miner_state(mr) ==
    IF mr = None \/ DOMAIN Val(mr) = {} THEN mr
    ELSE Some([ h \in DOMAIN Val(mr) |-> LastRecords(Val(mr)[h], HistoryCap) ])

\* miners.pickle: readable says whether pickle.load returns, content is the
\* object it returns
MinerFile(readable, content) == [ readable |-> readable, content |-> content ]

\* save_miner_state: the file that pickle.dump writes
save_miner_state(mr) == Some(MinerFile(TRUE, mr))

\* the path that load_miner_state renames the history file to
MinerAutorecoveryPath == "miners.pickle-<timestamp>.autorecovery"

\* load_miner_state that resets the history and leaves the file in place
load_miner_state_NoRename(mr, file, rec) ==
    IF file = None
    THEN [ miner_responses |-> mr, miner_file |-> file, recovered |-> rec ]
    ELSE IF Val(file).readable
         THEN [ miner_responses |-> Val(file).content, miner_file |-> file,
                recovered |-> rec ]
         ELSE [ miner_responses |-> None, miner_file |-> file, recovered |-> rec ]

\* load_miner_state: the history, the file and the autorecovery files after it
load_miner_state(mr, file, rec) ==
    IF file = None
    THEN [ miner_responses |-> mr, miner_file |-> file, recovered |-> rec ]
    ELSE IF Val(file).readable
         THEN [ miner_responses |-> Val(file).content, miner_file |-> file,
                recovered |-> rec ]
         ELSE [ miner_responses |-> None, miner_file |-> None,
                recovered |-> rec \cup { [ path |-> MinerAutorecoveryPath,
                                           content |-> Val(file) ] } ]

-----------------------------------------------------------------------------
(* Specification SpecScore: calculate_score applied to inputs drawn from    *)
(* bounded sets.                                                            *)

\* what the comparator can return: None (invalid), values inside and outside [0,1]
DistanceValues == { None, R(-1, 2), Zero, R(1, 2), R(4, 5), One, R(3, 2) }

\* response.dendrite.process_time
ResponseTimes == { RInt(-3), Zero, R(6, 5), RInt(6), RInt(12), RInt(15) }

\* what a penalty sub-scorer can return
PenaltyValues == { RInt(-4), Zero, RInt(5), RInt(10), RInt(20), RInt(25) }

ExtPenalties ==
    [ similarity : PenaltyValues, base : PenaltyValues, duplicate : PenaltyValues ]

\* the hotkey's entry of self.miner_responses: missing, or some records
Histories == { None, Some(<< >>), Some(<< 1 >>) }

ScoreArgs ==
    [ distance : DistanceValues, response_time : ResponseTimes,
      history : Histories, ext : ExtPenalties ]

NoArgs == [ distance |-> None, response_time |-> Zero, history |-> None,
            ext |-> [ similarity |-> Zero, base |-> Zero, duplicate |-> Zero ] ]

\* the validator's fields, untouched by the scoring specification
IdleValidator ==
    /\ metagraph = << >>
    /\ scores = << >>
    /\ hotkeys = None
    /\ blacklisted_miner_hotkeys = None
    /\ max_targets = PageThreshold
    /\ target_group = 0
    /\ miner_responses = None
    /\ step = 0
    /\ last_updated_block = 0
    /\ alpha = One
    /\ state_file = None
    /\ miner_file = None
    /\ validator_min_stake = 0
    /\ prompt = None
    /\ hotkey_blacklisted = FALSE
    /\ recovered = {}
    /\ cycle = << >>
    /\ rounds = 0

validatorVars == << metagraph, scores, hotkeys, blacklisted_miner_hotkeys,
                    max_targets, target_group, miner_responses, step,
                    last_updated_block, alpha, state_file, miner_file, validator_min_stake, prompt, hotkey_blacklisted, recovered, cycle,
                    rounds >>

InitScore ==
    /\ IdleValidator
    /\ score_args \in ScoreArgs
    /\ pc = "score_call"
    /\ ret = [ op |-> "none" ]

CalculateScore ==
    /\ pc = "score_call"
    /\ ret' = calculate_score(score_args.distance, score_args.response_time,
                              score_args.history, score_args.ext)
    /\ pc' = "score_done"
    /\ UNCHANGED << score_args, validatorVars >>

NextScore == CalculateScore

SpecScore == InitScore /\ [][NextScore]_vars

\* the penalty triple and the speed subscore that calculate_score works with
ArgPenalties == apply_penalty(score_args.history, score_args.ext)
ArgSpeed == process_calculate_subscore_speed(RInt(Timeout), score_args.response_time)

\* C3: for a distance subscore in [0,1], a speed subscore in [0,1] and
\* non-negative penalties (similarity, base, duplicate), the total returned
\* by calculate_score lies in [0,1].
C3_TotalInUnit ==
    ( /\ pc = "score_done"
      /\ score_args.distance # None
      /\ InUnit(score_args.distance)
      /\ InUnit(ArgSpeed)
      /\ RGe(ArgPenalties.similarity, Zero)
      /\ RGe(ArgPenalties.base, Zero)
      /\ RGe(ArgPenalties.duplicate, Zero) )
    => InUnit(ret.total)

\* distance 0.8, speed 0.9, history present and no penalties: total 0.815
C3_Witness ==
    /\ pc = "score_done"
    /\ score_args.distance = R(4, 5)
    /\ ArgSpeed = R(9, 10)
    /\ score_args.history # None
    /\ ArgPenalties.base = Zero
    /\ ArgPenalties.similarity = Zero
    /\ ArgPenalties.duplicate = Zero
    /\ ret.total = R(815, 1000)

\* the distance subscore, the multipliers and the penalized scores that
\* calculate_score works with
ArgDistance == IF score_args.distance = None THEN Zero ELSE score_args.distance
ArgMultipliers == get_response_penalties(score_args.history, score_args.ext)
ArgFinal ==
    calculate_penalized_scores(ArgDistance, ArgSpeed, ArgMultipliers.distance,
                               ArgMultipliers.speed)

\* C14: when the distance subscore or the speed subscore is outside [0,1],
\* or the penalized total, weighted distance or weighted speed is, the
\* result of calculate_score is the default result, all zeros: nothing is
\* clamped and the total is 0
C14_FailsClosed ==
    ( /\ pc = "score_done"
      /\ \/ ~InUnit(ArgDistance)
         \/ ~InUnit(ArgSpeed)
         \/ ~InUnit(ArgFinal.total)
         \/ ~InUnit(ArgFinal.distance)
         \/ ~InUnit(ArgFinal.speed) )
    => /\ ret = DefaultResponseObject
       /\ ret.total = Zero
       /\ ret.raw_distance = Zero
       /\ ret.raw_speed = Zero

\* distance 1.5 with speed 0.5 and no penalties: a clamp would give 0.925
C14_Witness ==
    /\ pc = "score_done"
    /\ score_args.distance = R(3, 2)
    /\ ArgSpeed = R(1, 2)
    /\ score_args.history # None
    /\ ArgMultipliers.distance = One
    /\ ArgMultipliers.speed = One
    /\ ret.total = Zero

\* C17: for subscores in [0,1], the weighted distance of the result is
\* 0.85 * distance * distance multiplier, the weighted speed is
\* 0.15 * speed * speed multiplier, and the total is their sum
C17_WeightedSum ==
    ( /\ pc = "score_done"
      /\ InUnit(ArgDistance)
      /\ InUnit(ArgSpeed) )
    => /\ ret.raw_distance = ArgDistance
       /\ ret.raw_speed = ArgSpeed
       /\ ret.distance = RMul(RMul(R(85, 100), ArgDistance), ret.distance_penalty)
       /\ ret.speed = RMul(RMul(R(15, 100), ArgSpeed), ret.speed_penalty)
       /\ ret.total = RAdd(ret.distance, ret.speed)
       /\ ret.distance_penalty = ArgMultipliers.distance
       /\ ret.speed_penalty = ArgMultipliers.speed

\* distance 0.8, speed 0.9, both multipliers 1: 0.68 + 0.135 = 0.815
C17_Witness ==
    /\ pc = "score_done"
    /\ score_args.distance = R(4, 5)
    /\ ArgSpeed = R(9, 10)
    /\ ret.distance_penalty = One
    /\ ret.speed_penalty = One
    /\ ret.distance = R(68, 100)
    /\ ret.speed = R(135, 1000)
    /\ ret.total = R(815, 1000)

\* min(response_time, timeout) of the call
CappedTime ==
    IF RLe(score_args.response_time, RInt(Timeout))
    THEN score_args.response_time
    ELSE RInt(Timeout)

\* C29: the speed subscore is 1 - min(response_time, timeout) / timeout, so
\* it is 0 for every response_time >= timeout; a response that late with a
\* distance subscore in [0,1] is scored all the same: its result carries the
\* distance subscore, and the total is the weighted distance alone
C29_LateResponseScored ==
    pc = "score_done" =>
        /\ calculate_subscore_speed(score_args.response_time)
              = RSub(One, RDiv(CappedTime, RInt(Timeout)))
        /\ ArgSpeed = calculate_subscore_speed(score_args.response_time)
        /\ RGe(score_args.response_time, RInt(Timeout)) =>
              /\ calculate_subscore_speed(score_args.response_time) = Zero
              /\ InUnit(ArgDistance) =>
                    /\ ret.raw_speed = Zero
                    /\ ret.speed = Zero
                    /\ ret.raw_distance = ArgDistance
                    /\ ret.distance = RMul(RMul(WeightDistance, ArgDistance),
                                           ArgMultipliers.distance)
                    /\ ret.total = ret.distance

\* response_time 15 with timeout 12, distance 0.8 and no penalties: speed 0
\* and total 0.68
C29_Witness ==
    /\ pc = "score_done"
    /\ score_args.response_time = RInt(15)
    /\ Timeout = 12
    /\ score_args.distance = R(4, 5)
    /\ ArgMultipliers.distance = One
    /\ ret.raw_speed = Zero
    /\ ret.raw_distance = R(4, 5)
    /\ ret.total = R(68, 100)

-----------------------------------------------------------------------------
(* Specification SpecSelect: rounds of target selection while the registry  *)
(* and the blacklist change between the calls.                              *)

Entry(h) == [ hotkey |-> h, reason |-> "r" ]

\* what the two blacklist sources return in a round of this specification
SelectLocalSources ==
    { [ kind |-> "absent", body |-> << >> ],
      [ kind |-> "json", body |-> << Entry(2) >> ] }

SelectRemoteSources ==
    { [ kind |-> "timeout", body |-> << >> ],
      [ kind |-> "json", body |-> << Entry(1), Entry(MaxWorkers + 1) >> ] }

\* args.max_targets, 256 when it is not given
MaxTargetsValues == (1 .. MaxPage) \cup { PageThreshold }

Worker(h, s, a) == [ hotkey |-> h, stake |-> s, ip |-> a ]

\* the registries of at most MaxWorkers workers with the given stakes; the
\* worker of position p has hotkey p
Registries(stakes) ==
    UNION { [ 1 .. n -> { Worker(0, s, a) : s \in stakes, a \in IpValues } ]
            : n \in 1 .. MaxWorkers }

WithHotkeys(m) == [ p \in 1 .. Len(m) |-> Worker(p, m[p].stake, m[p].ip) ]

\* in this specification every stake is positive: a worker enters and leaves
\* the filtered list through its address and through the blacklist
SelectStakes == { 1 }

NoCycle == [ base |-> << >>, pages |-> << >>, stable |-> FALSE, done |-> FALSE ]

InitSelect ==
    /\ \E m \in Registries(SelectStakes) : metagraph = WithHotkeys(m)
    /\ max_targets \in MaxTargetsValues
    /\ target_group = 0
    /\ blacklisted_miner_hotkeys = None
    /\ scores = << >>
    /\ hotkeys = None
    /\ miner_responses = None
    /\ step = 0
    /\ last_updated_block = 0
    /\ alpha = One
    /\ state_file = None
    /\ miner_file = None
    /\ validator_min_stake = 0
    /\ prompt = None
    /\ hotkey_blacklisted = FALSE
    /\ recovered = {}
    /\ pc = "round"
    /\ ret = [ op |-> "none" ]
    /\ score_args = NoArgs
    /\ cycle = NoCycle
    /\ rounds = 0

selectFrame == << scores, hotkeys, miner_responses, step, last_updated_block,
                  alpha, state_file, miner_file, validator_min_stake, prompt, hotkey_blacklisted, recovered, pc, score_args, max_targets,
                  rounds >>

\* metagraph.sync: a worker's stake or address changes
SyncAttributes ==
    /\ \E p \in 1 .. Len(metagraph), s \in SelectStakes, a \in IpValues :
          /\ Worker(metagraph[p].hotkey, s, a) # metagraph[p]
          /\ metagraph' = [ metagraph EXCEPT ![p] = Worker(@.hotkey, s, a) ]
    /\ ret' = [ op |-> "sync_metagraph" ]
    /\ UNCHANGED << blacklisted_miner_hotkeys, target_group, cycle, selectFrame >>

\* metagraph.sync: a worker registers in a new slot
SyncRegister ==
    /\ Len(metagraph) < MaxWorkers
    /\ \E s \in SelectStakes, a \in IpValues :
          metagraph' = Append(metagraph, Worker(Len(metagraph) + 1, s, a))
    /\ ret' = [ op |-> "sync_metagraph" ]
    /\ UNCHANGED << blacklisted_miner_hotkeys, target_group, cycle, selectFrame >>

\* metagraph.sync: the last slot is gone
SyncDeregister ==
    /\ Len(metagraph) > 1
    /\ metagraph' = SubSeq(metagraph, 1, Len(metagraph) - 1)
    /\ ret' = [ op |-> "sync_metagraph" ]
    /\ UNCHANGED << blacklisted_miner_hotkeys, target_group, cycle, selectFrame >>

CheckBlacklistedMinerHotkeys ==
    /\ \E local \in SelectLocalSources, remote \in SelectRemoteSources :
          blacklisted_miner_hotkeys' = check_blacklisted_miner_hotkeys(local, remote)
    /\ ret' = [ op |-> "check_blacklisted_miner_hotkeys" ]
    /\ UNCHANGED << metagraph, target_group, cycle, selectFrame >>

\* the pages of the rotation that is under way, kept while the filtered list
\* is the one the rotation started with
CycleAfter(r) ==
    LET F == filtered_axons(metagraph, blacklisted_miner_hotkeys)
        c == IF target_group = 0
             THEN [ base |-> F, pages |-> << >>, stable |-> TRUE, done |-> FALSE ]
             ELSE [ cycle EXCEPT !.stable = @ /\ F = cycle.base, !.done = FALSE ]
    IN  IF c.stable /\ r.outcome = "return" /\ Len(r.result) = 4
        THEN [ c EXCEPT !.pages = @ \o r.result[1],
                        !.done = max_targets < PageThreshold /\ r.target_group = 0 ]
        ELSE NoCycle

GetUidsToQuery ==
    LET r == get_uids_to_query(metagraph, blacklisted_miner_hotkeys,
                               max_targets, target_group)
    IN  /\ target_group' = r.target_group
        /\ ret' = [ op |-> "get_uids_to_query", outcome |-> r.outcome,
                    result |-> r.result, cursor |-> target_group ]
        /\ cycle' = CycleAfter(r)
        /\ UNCHANGED << metagraph, blacklisted_miner_hotkeys, selectFrame >>

NextSelect ==
    \/ SyncAttributes
    \/ SyncRegister
    \/ SyncDeregister
    \/ CheckBlacklistedMinerHotkeys
    \/ GetUidsToQuery

SpecSelect == InitSelect /\ [][NextSelect]_vars

\* C2: with the same filtered list in every round and max_targets below its
\* length, the pages returned from cursor 0 up to the call that sets the
\* cursor back to 0 concatenate to exactly the filtered list, in order.
C2_FullCycleCoverage ==
    ( /\ cycle.done
      /\ cycle.stable
      /\ max_targets < Len(cycle.base) )
    => cycle.pages = cycle.base

\* a rotation of three pages over an unchanged filtered list ends
C2_Witness ==
    /\ cycle.done
    /\ cycle.stable
    /\ max_targets < Len(cycle.base)
    /\ Len(cycle.base) = 3
    /\ max_targets = 1
    /\ ret.op = "get_uids_to_query"
    /\ ret.cursor = 2

\* the list get_uids_to_query pages over
Filtered == filtered_axons(metagraph, blacklisted_miner_hotkeys)

\* C22: a get_uids_to_query call with max_targets at or above the number of
\* workers of the registry returns the whole filtered list and leaves the
\* cursor at the value it had before the call
C22_SinglePageKeepsCursor ==
    ( /\ ret.op = "get_uids_to_query"
      /\ max_targets >= Len(metagraph) )
    => /\ ret.outcome = "return"
       /\ ret.result[1] = Filtered
       /\ target_group = ret.cursor

\* the last call was a paginated get_uids_to_query
PagedCall == ret.op = "get_uids_to_query" /\ max_targets < PageThreshold

\* start_idx of the last call
StartIdx == max_targets * ret.cursor

\* C24 as stated: a paginated call raises IndexError whenever the slice
\* start is at or after the length of the filtered list, and no other call
\* of get_uids_to_query raises it
C24_RaisesAtOrAfterEnd ==
    ret.op = "get_uids_to_query" =>
        ( ret.outcome = "IndexError" <=> ( PagedCall /\ StartIdx >= Len(Filtered) ) )

\* C24, amended: a paginated call raises IndexError exactly when the slice
\* start is after the length of the filtered list, and then the cursor is
\* left as it was; with the slice start at the length of the list the call
\* returns the empty result; no other call of get_uids_to_query raises
C24_RaisesAfterEnd ==
    ret.op = "get_uids_to_query" =>
        /\ ret.outcome = "IndexError" <=> ( PagedCall /\ StartIdx > Len(Filtered) )
        /\ ret.outcome = "IndexError" => target_group = ret.cursor
        /\ ( PagedCall /\ StartIdx = Len(Filtered) ) =>
              /\ ret.outcome = "return"
              /\ ret.result = << << >>, << >> >>

\* the list got shorter while the cursor was 2: the slice would start after
\* the one worker left, and the call raises
C24_Witness ==
    /\ PagedCall
    /\ ret.outcome = "IndexError"
    /\ max_targets = 1
    /\ ret.cursor = 2
    /\ Len(Filtered) = 1

\* end_idx of the last call
EndIdx == Min(Len(Filtered), max_targets * (ret.cursor + 1))

\* C25: a paginated call whose slice start equals its slice end returns the
\* empty query set, raises nothing and leaves the cursor as it was
C25_EmptySliceReturnsEmpty ==
    ( PagedCall /\ StartIdx = EndIdx )
    => /\ ret.outcome = "return"
       /\ ret.result[1] = << >>
       /\ target_group = ret.cursor

\* a registry of two workers without address: the filtered list is empty
C25_Witness ==
    /\ PagedCall
    /\ StartIdx = EndIdx
    /\ Len(metagraph) = 2
    /\ Filtered = << >>
    /\ ret.outcome = "return"
    /\ ret.result[1] = << >>
    /\ target_group = 0

\* C26: in every state in which a round can start, the cursor is within the
\* bounds of the filtered list as it is now: max_targets * target_group is
\* below its length, or the list is empty and the cursor is 0
C26_CursorInBounds ==
    \/ max_targets * target_group < Len(Filtered)
    \/ Filtered = << >> /\ target_group = 0

\* the rounds go on: the control thread calls get_uids_to_query again and
\* again, whatever the registry and the blacklist do in between
SpecSelectFair == SpecSelect /\ WF_vars(GetUidsToQuery)

\* a call that returned a page with workers in it
NonEmptyPage ==
    /\ ret.op = "get_uids_to_query"
    /\ ret.outcome = "return"
    /\ ret.result[1] # << >>

\* C31: in every run of rounds with max_targets below 256 in which the
\* filtered list is never empty, get_uids_to_query returns a non-empty page
\* again and again
C31_PageInfinitelyOften ==
    [](max_targets < PageThreshold /\ Filtered # << >>) => []<>NonEmptyPage

-----------------------------------------------------------------------------
(* Specification SpecFilter: get_uids_to_query called in any state of the   *)
(* registry, the blacklist and the cursor.                                  *)

FilterBlacklists ==
    { None, Some(<< >>), Some(<< 1 >>), Some(<< 2, 1, 2 >>), Some(<< MaxWorkers + 1 >>) }

\* the cursor values that earlier rounds can leave behind: the cursor only
\* advances while max_targets * (cursor + 1) is below the length of a list
Cursors(mt) ==
    IF mt < PageThreshold THEN { tg \in 0 .. MaxWorkers : mt * tg < MaxWorkers } ELSE { 0 }

InitFilter ==
    /\ \E m \in Registries(StakeValues) : metagraph = WithHotkeys(m)
    /\ max_targets \in MaxTargetsValues
    /\ target_group \in Cursors(max_targets)
    /\ blacklisted_miner_hotkeys \in FilterBlacklists
    /\ scores = << >>
    /\ hotkeys = None
    /\ miner_responses = None
    /\ step = 0
    /\ last_updated_block = 0
    /\ alpha = One
    /\ state_file = None
    /\ miner_file = None
    /\ validator_min_stake = 0
    /\ prompt = None
    /\ hotkey_blacklisted = FALSE
    /\ recovered = {}
    /\ pc = "round"
    /\ ret = [ op |-> "none" ]
    /\ score_args = NoArgs
    /\ cycle = NoCycle
    /\ rounds = 0

NextFilter == GetUidsToQuery

SpecFilter == InitFilter /\ [][NextFilter]_vars

Returned == ret.op = "get_uids_to_query" /\ ret.outcome = "return"

\* the workers returned for querying by the last call
ToQuery == Range(ret.result[1])

Blacklisted(h) ==
    blacklisted_miner_hotkeys # None /\ h \in Range(Val(blacklisted_miner_hotkeys))

\* C1: every worker that get_uids_to_query returns as a worker to query has
\* stake >= 0, an IP other than "0.0.0.0" and a hotkey that is not in
\* blacklisted_miner_hotkeys.
C1_QueryOnlyEligible ==
    Returned =>
        \A p \in ToQuery :
            /\ metagraph[p].stake >= 0
            /\ metagraph[p].ip # UnsetIp
            /\ ~Blacklisted(metagraph[p].hotkey)

\* a call returns workers while a blacklisted worker that is otherwise
\* eligible, a worker of negative stake and a worker without address exist
C1_Witness ==
    /\ Returned
    /\ ToQuery # {}
    /\ \E p \in 1 .. Len(metagraph) :
          /\ Blacklisted(metagraph[p].hotkey)
          /\ metagraph[p].stake >= 0
          /\ metagraph[p].ip # UnsetIp
    /\ \E p \in 1 .. Len(metagraph) : metagraph[p].stake < 0
    /\ \E p \in 1 .. Len(metagraph) : metagraph[p].ip = UnsetIp

\* a call that took the paging branch and returned a page
PageReturned ==
    /\ Returned
    /\ max_targets < PageThreshold
    /\ Len(ret.result) = 4
    /\ ret.result[1] # << >>

\* C23: a paginated call that returns a non-empty page ends the page at the
\* end of the filtered list and sets the cursor to 0 when
\* max_targets * (cursor + 1) reaches or exceeds the length of the list;
\* otherwise the page has exactly max_targets workers and the cursor is one
\* more than before
C23_PageAndCursor ==
    PageReturned =>
        LET first == max_targets * ret.cursor + 1
        IN  IF max_targets * (ret.cursor + 1) >= Len(Filtered)
            THEN /\ ret.result[1] = SubSeq(Filtered, first, Len(Filtered))
                 /\ target_group = 0
            ELSE /\ Len(ret.result[1]) = max_targets
                 /\ ret.result[1] = SubSeq(Filtered, first, first + max_targets - 1)
                 /\ target_group = ret.cursor + 1

\* the second page of a list of three with max_targets 2: one worker, and
\* the cursor is back at 0
C23_Witness ==
    /\ PageReturned
    /\ max_targets = 2
    /\ ret.cursor = 1
    /\ Len(Filtered) = 3
    /\ Len(ret.result[1]) = 1
    /\ target_group = 0

\* a call that returned the four lists
FullResult == Returned /\ Len(ret.result) = 4

\* uids_not_to_query of the last call
NotToQuery == Range(ret.result[4])

BlacklistedUids == Range(ret.result[3])

\* the workers that fail the filter
FailFilter ==
    { p \in 1 .. Len(metagraph) :
        \/ metagraph[p].stake < 0
        \/ metagraph[p].ip = UnsetIp
        \/ Blacklisted(metagraph[p].hotkey) }

\* C28 as stated: every worker that fails the filter is in exactly one of
\* the blacklisted list and the invalid list, and no worker of either list
\* is returned for querying
C28_ExclusionListsPartition ==
    FullResult =>
        /\ \A p \in FailFilter : ( p \in BlacklistedUids ) # ( p \in NotToQuery )
        /\ ( BlacklistedUids \cup NotToQuery ) \cap ToQuery = {}

\* C28, amended: uids_not_to_query holds every worker that fails the filter,
\* the blacklisted ones included, and nobody else; blacklisted_uids holds the
\* workers whose hotkey is blacklisted, so each of them is in both lists; no
\* worker of either list is returned for querying
C28_ExclusionListsNested ==
    FullResult =>
        /\ NotToQuery = FailFilter
        /\ BlacklistedUids = { p \in 1 .. Len(metagraph) : Blacklisted(metagraph[p].hotkey) }
        /\ BlacklistedUids \subseteq NotToQuery
        /\ ( BlacklistedUids \cup NotToQuery ) \cap ToQuery = {}

\* a call reports a blacklisted worker in both lists, a worker without
\* address in uids_not_to_query only, and returns a third for querying
C28_Witness ==
    /\ FullResult
    /\ \E p \in BlacklistedUids : p \in NotToQuery
    /\ \E p \in NotToQuery : p \notin BlacklistedUids /\ metagraph[p].ip = UnsetIp
    /\ ToQuery # {}

\* C32: every get_uids_to_query call that returns has a result of four
\* components: the workers to query, their uids, the blacklisted uids and
\* the filtered-out uids
C32_SameShape ==
    Returned => Len(ret.result) = 4

\* C33: the query set that a get_uids_to_query call returns has at most
\* max_targets workers
C33_AtMostMaxTargets ==
    Returned => Len(ret.result[1]) <= max_targets

-----------------------------------------------------------------------------
(* Specification SpecState: the reputation vector and the hotkey snapshot in *)
(* one process.  The process starts (initialize_neuron) with the state file *)
(* an earlier process left, then syncs the registry and checks the hotkeys  *)
(* in any order.  Specification SpecLife adds rounds of process_responses.  *)

\* the registry has at most MaxSlots slots in this specification
MaxSlots == 2

\* at most MaxRounds calls of process_responses
MaxRounds == 1

\* alpha ranges over the multiples of 1/AlphaDen in (0, 1]
AlphaDen == 2

AlphaValues == { R(k, AlphaDen) : k \in 1 .. AlphaDen }

\* query["weight"]
WeightValues == { R(1, 2), RInt(2) }

\* slot p holds hotkey p or, after its worker was replaced, hotkey p + MaxSlots
SlotHotkeys(p) == { p, p + MaxSlots }

NoPenalty == [ similarity |-> Zero, base |-> Zero, duplicate |-> Zero ]

\* the responses of a round: one that fails validate_response, a perfect
\* and immediate one, and one whose comparator value is out of range
RoundResponses ==
    { [ valid |-> FALSE, distance |-> Zero, response_time |-> Zero, ext |-> NoPenalty ],
      [ valid |-> TRUE, distance |-> One, response_time |-> Zero, ext |-> NoPenalty ],
      [ valid |-> TRUE, distance |-> R(3, 2), response_time |-> RInt(6), ext |-> NoPenalty ] }

\* the history that an earlier process saved: hotkey 1 has answered before
StateMinerResponses == Some([ h \in { 1 } |-> << 1 >> ])

\* the state files a start can find: none, an unreadable one, one of an
\* older version without last_updated_block, and one that save_state wrote
\* in an earlier process for a registry of one worker
InitialStateFiles ==
    { None,
      Some(StateFile(FALSE, {}, 0, << >>, None, 0, None)),
      Some(StateFile(TRUE, StateFields \ { "last_updated_block" }, 7, << One >>,
                     Some(<< 1 >>), 0, Some(<< 2 >>))),
      save_state(7, << R(1, 2) >>, Some(<< 1 >>), 7, Some(<< 2 >>)) }

StateRegistries ==
    { m \in UNION { [ 1 .. n -> { Worker(h, 1, "10.0.0.1") : h \in 1 .. (2 * MaxSlots) } ]
                    : n \in 1 .. MaxSlots } :
        \A p \in 1 .. Len(m) : m[p].hotkey \in SlotHotkeys(p) }

InitState ==
    /\ metagraph \in StateRegistries
    /\ state_file \in InitialStateFiles
    /\ miner_file = save_miner_state(StateMinerResponses)
    /\ validator_min_stake = 0
    /\ prompt = None
    /\ hotkey_blacklisted = FALSE
    /\ alpha \in AlphaValues
    /\ miner_responses = None
    /\ scores = << >>
    /\ hotkeys = None
    /\ blacklisted_miner_hotkeys = None
    /\ max_targets = PageThreshold
    /\ target_group = 0
    /\ step = 0
    /\ last_updated_block = 0
    /\ recovered = {}
    /\ pc = "start"
    /\ ret = [ op |-> "none" ]
    /\ score_args = NoArgs
    /\ cycle = NoCycle
    /\ rounds = 0

stateFrame == << max_targets, target_group, alpha, validator_min_stake, prompt, hotkey_blacklisted, score_args,
                cycle >>

Fields ==
    [ step |-> step, scores |-> scores, hotkeys |-> hotkeys,
      last_updated_block |-> last_updated_block,
      blacklisted_miner_hotkeys |-> blacklisted_miner_hotkeys,
      state_file |-> state_file, recovered |-> recovered ]

\* initialize_neuron: setup_bittensor_objects copies the registry's hotkeys,
\* then load_state and load_miner_state, or init_default_scores, as
\* args.load_state says
InitializeNeuron ==
    /\ pc = "start"
    /\ \E load_validator_state \in BOOLEAN :
          LET cur == [ Fields EXCEPT !.hotkeys = Some(MetagraphHotkeys(metagraph)) ]
              new == IF load_validator_state
                     THEN load_state(cur, metagraph)
                     ELSE [ cur EXCEPT !.scores = init_default_scores(metagraph) ]
              miners == IF load_validator_state
                        THEN load_miner_state(miner_responses, miner_file, new.recovered)
                        ELSE [ miner_responses |-> miner_responses,
                               miner_file |-> miner_file, recovered |-> new.recovered ]
          IN  /\ step' = new.step
              /\ scores' = new.scores
              /\ hotkeys' = new.hotkeys
              /\ last_updated_block' = new.last_updated_block
              /\ blacklisted_miner_hotkeys' = new.blacklisted_miner_hotkeys
              /\ state_file' = new.state_file
              /\ miner_responses' = miners.miner_responses
              /\ miner_file' = miners.miner_file
              /\ recovered' = miners.recovered
              /\ ret' = [ op |-> "initialize_neuron", load_state |-> load_validator_state,
                          file |-> state_file ]
    /\ pc' = "run"
    /\ UNCHANGED << metagraph, rounds, stateFrame >>

runFrame == << step, last_updated_block, blacklisted_miner_hotkeys, state_file,
               miner_file, miner_responses,
               recovered, pc, rounds, stateFrame >>

\* metagraph.sync: the worker of a slot is replaced
SyncReplace ==
    /\ pc = "run"
    /\ \E p \in 1 .. Len(metagraph) :
       \E h \in SlotHotkeys(p) \ { metagraph[p].hotkey } :
          metagraph' = [ metagraph EXCEPT ![p] = Worker(h, @.stake, @.ip) ]
    /\ ret' = [ op |-> "sync_metagraph" ]
    /\ UNCHANGED << scores, hotkeys, runFrame >>

\* metagraph.sync: the registry has one more slot
SyncGrow ==
    /\ pc = "run"
    /\ Len(metagraph) < MaxSlots
    /\ \E h \in SlotHotkeys(Len(metagraph) + 1) :
          metagraph' = Append(metagraph, Worker(h, 1, "10.0.0.1"))
    /\ ret' = [ op |-> "sync_metagraph" ]
    /\ UNCHANGED << scores, hotkeys, runFrame >>

\* metagraph.sync: the registry has one slot less
SyncShrink ==
    /\ pc = "run"
    /\ Len(metagraph) > 1
    /\ metagraph' = SubSeq(metagraph, 1, Len(metagraph) - 1)
    /\ ret' = [ op |-> "sync_metagraph" ]
    /\ UNCHANGED << scores, hotkeys, runFrame >>

CheckHotkeys ==
    /\ pc = "run"
    /\ LET r == check_hotkeys(hotkeys, scores, metagraph)
       IN  /\ scores' = r.scores
           /\ hotkeys' = r.hotkeys
           /\ ret' = [ op |-> "check_hotkeys", outcome |-> r.outcome,
                       hotkeys |-> hotkeys, scores |-> scores ]
    /\ UNCHANGED << metagraph, runFrame >>

\* process_responses for the uids and the query weight of a round, the
\* response of each uid being one of kinds
ProcessResponsesOf(uids, weight, kinds) ==
    /\ \E responses \in [ 1 .. Len(uids) -> kinds ] :
       \E r \in { process_responses(scores, metagraph, miner_responses, alpha,
                                     weight, uids, responses) } :
          /\ scores' = r.scores
          /\ ret' = [ op |-> "process_responses", log |-> r.log,
                      valid_uids |-> r.valid_uids,
                      invalid_uids |-> r.invalid_uids,
                      weight |-> weight, scores |-> scores,
                      uids |-> uids, responses |-> responses ]
    /\ rounds' = rounds + 1
    /\ UNCHANGED << metagraph, hotkeys, step, last_updated_block,
                    blacklisted_miner_hotkeys, state_file, miner_file, validator_min_stake, prompt, hotkey_blacklisted,
                    miner_responses, recovered, pc, stateFrame >>

\* a round of SpecLife queries one worker that the registry and the
\* reputation vector both have
ProcessRound ==
    /\ pc = "run"
    /\ rounds < MaxRounds
    /\ \E p \in 1 .. Min(Len(metagraph), Len(scores)) :
          ProcessResponsesOf(<< p >>, R(1, 2), RoundResponses)

NextState ==
    \/ InitializeNeuron
    \/ SyncReplace
    \/ SyncGrow
    \/ SyncShrink
    \/ CheckHotkeys

SpecState == InitState /\ [][NextState]_vars

\* Specification SpecLife: SpecState with rounds of process_responses
NextLife ==
    \/ InitializeNeuron
    \/ SyncReplace
    \/ SyncGrow
    \/ SyncShrink
    \/ CheckHotkeys
    \/ ProcessRound

SpecLife == InitState /\ [][NextLife]_vars

-----------------------------------------------------------------------------
(* Specification SpecEMA: one process_responses call on a reputation vector *)
(* drawn from a grid of scores.                                             *)

\* the scores of the vector are the multiples of 1/GridDen in [0, 1]
GridDen == 2

ScoreGrid == { R(k, GridDen) : k \in 0 .. GridDen }

\* the registry of this specification: hotkeys 1 and 2 in slots 0 and 1
EMARegistry == << Worker(1, 1, "10.0.0.1"), Worker(2, 1, "10.0.0.1") >>

\* the uids a round can have queried: distinct positions of the registry
ProcessedUids ==
    LET n == Min(Len(metagraph), Len(scores))
    IN  { << p >> : p \in 1 .. n } \cup
        ( { << p, q >> : p \in 1 .. n, q \in 1 .. n } \ { << p, p >> : p \in 1 .. n } )

InitEMA ==
    /\ metagraph = EMARegistry
    /\ scores \in [ 1 .. Len(EMARegistry) -> ScoreGrid ]
    /\ alpha \in AlphaValues
    /\ miner_responses = StateMinerResponses
    /\ hotkeys = Some(MetagraphHotkeys(EMARegistry))
    /\ blacklisted_miner_hotkeys = None
    /\ max_targets = PageThreshold
    /\ target_group = 0
    /\ step = 0
    /\ last_updated_block = 0
    /\ state_file = None
    /\ miner_file = None
    /\ validator_min_stake = 0
    /\ prompt = None
    /\ hotkey_blacklisted = FALSE
    /\ recovered = {}
    /\ pc = "run"
    /\ ret = [ op |-> "none" ]
    /\ score_args = NoArgs
    /\ cycle = NoCycle
    /\ rounds = 0

ProcessResponses ==
    /\ pc = "run"
    /\ rounds = 0
    /\ \E uids \in ProcessedUids, weight \in WeightValues :
          ProcessResponsesOf(uids, weight, RoundResponses)

NextEMA == ProcessResponses

SpecEMA == InitEMA /\ [][NextEMA]_vars

\* C4: after process_responses, the stored score of every processed uid is
\* alpha * raw + (1 - alpha) * old, old being the score of that uid before
\* the call, whatever the round weight; the unweighted new score that
\* assign_score_for_uid returns is the stored score
C4_StoredIsEMA ==
    ret.op = "process_responses" =>
        \A i \in 1 .. Len(ret.log) :
            LET e == ret.log[i]
            IN  /\ e.old = ret.scores[e.uid]
                /\ scores[e.uid] = RAdd(RMul(alpha, e.raw),
                                        RMul(RSub(One, alpha), ret.scores[e.uid]))
                /\ e.stored = scores[e.uid]
                /\ e.unweighted = scores[e.uid]

\* a round of weight 2 that moved a score of 1/2 to 3/4 with alpha 1/2
C4_Witness ==
    /\ ret.op = "process_responses"
    /\ ret.weight = RInt(2)
    /\ alpha = R(1, 2)
    /\ \E i \in 1 .. Len(ret.log) :
          /\ ret.log[i].raw = One
          /\ ret.scores[ret.log[i].uid] = R(1, 2)
          /\ scores[ret.log[i].uid] = R(3, 4)

\* the start just made found a state file that load_state could not read as
\* a valid state
CorruptStateLoaded ==
    /\ ret.op = "initialize_neuron"
    /\ ret.load_state
    /\ ret.file # None
    /\ ~Loadable(Val(ret.file))

\* C6: when load_state finds a state file that cannot be read as a valid
\* state, the start completes, the reputation vector is all zeros, no file
\* is left at the state path and the unchanged content of the file is under
\* the .autorecovery path
C6_CorruptStateRecovered ==
    CorruptStateLoaded =>
        /\ pc = "run"
        /\ scores = init_default_scores(metagraph)
        /\ state_file = None
        /\ [ path |-> AutorecoveryPath, content |-> Val(ret.file) ] \in recovered

\* a start with a readable file whose dict lacks a key: step, scores and
\* hotkeys had been assigned from it before the KeyError
C6_Witness ==
    /\ CorruptStateLoaded
    /\ Val(ret.file).readable
    /\ Val(ret.file).scores = << One >>
    /\ Len(scores) = 2
    /\ recovered # {}

\* C7: every entry of the reputation vector is in [0, 1] in every reachable
\* state
C7_ScoresInUnit == \A p \in 1 .. Len(scores) : InUnit(scores[p])

\* a round has stored a score strictly between 0 and 1 for a response that
\* calculate_score scored
C7_Witness ==
    /\ ret.op = "process_responses"
    /\ \E i \in 1 .. Len(ret.log) :
          /\ ret.log[i].scored
          /\ RGt(scores[ret.log[i].uid], Zero)
          /\ RLt(scores[ret.log[i].uid], One)

\* C8: after every check_hotkeys call the reputation vector is as long as
\* the registry
C8_LengthIsRegistrySize ==
    ret.op = "check_hotkeys" => Len(scores) = Len(metagraph)

\* check_hotkeys has just run with a snapshot of another length than the
\* registry
SnapshotLengthDiffers ==
    /\ ret.op = "check_hotkeys"
    /\ ret.hotkeys # None
    /\ Len(Val(ret.hotkeys)) # Len(metagraph)

\* C9: when check_hotkeys runs with a snapshot of another length than the
\* registry's hotkey list, the reputation vector becomes the all-zero
\* vector of the registry's size
C9_MismatchResetsAll ==
    SnapshotLengthDiffers =>
        /\ ret.outcome = "return"
        /\ scores = init_default_scores(metagraph)
        /\ Len(scores) = Len(metagraph)

\* a vector of one score 1/2 replaced by two zeros
C9_Witness ==
    /\ SnapshotLengthDiffers
    /\ ret.scores = << R(1, 2) >>
    /\ scores = << Zero, Zero >>

\* check_hotkeys has just run with a snapshot as long as the registry
SnapshotLengthSame ==
    /\ ret.op = "check_hotkeys"
    /\ ret.hotkeys # None
    /\ Len(Val(ret.hotkeys)) = Len(metagraph)

\* C10: when check_hotkeys runs with a snapshot as long as the registry's
\* hotkey list, it returns, the score at every position whose hotkey
\* changed is 0.0 and the score at every other position is what it was
C10_OnlyChangedReset ==
    SnapshotLengthSame =>
        /\ ret.outcome = "return"
        /\ Len(scores) = Len(ret.scores)
        /\ \A p \in 1 .. Len(metagraph) :
              IF Val(ret.hotkeys)[p] # metagraph[p].hotkey
              THEN p \in DOMAIN scores /\ scores[p] = Zero
              ELSE p \in DOMAIN scores => scores[p] = ret.scores[p]

\* C13: a response that fails validate_response updates the score of its
\* uid with raw score 0.0, is not scored by calculate_score, and its uid is
\* among the invalid uids and not among the valid ones
C13_InvalidScoredZero ==
    ret.op = "process_responses" =>
        \A i \in 1 .. Len(ret.responses) :
            ~ret.responses[i].valid =>
                LET uid == ret.uids[i]
                IN  /\ ret.log[i].uid = uid
                    /\ ret.log[i].raw = Zero
                    /\ ~ret.log[i].scored
                    /\ scores[uid] = RMul(RSub(One, alpha), ret.scores[uid])
                    /\ \E k \in 1 .. Len(ret.invalid_uids) : ret.invalid_uids[k] = uid
                    /\ \A k \in 1 .. Len(ret.valid_uids) : ret.valid_uids[k] # uid

\* a round of two responses, the first valid and the second not, that
\* lowered the score 1 of the second uid to 1/2
C13_Witness ==
    /\ ret.op = "process_responses"
    /\ Len(ret.responses) = 2
    /\ ret.responses[1].valid
    /\ ~ret.responses[2].valid
    /\ ret.scores[ret.uids[2]] = One
    /\ scores[ret.uids[2]] = R(1, 2)
    /\ ret.invalid_uids = << ret.uids[2] >>

\* C30: one process_responses call makes one reputation update for each
\* response it is given, in order and to the uid of that response, each
\* response counted once among the valid or the invalid uids, and it leaves
\* the score of every uid that is not among the processed uids as it was
C30_OneUpdatePerResponse ==
    ret.op = "process_responses" =>
        /\ Len(ret.log) = Len(ret.responses)
        /\ \A i \in 1 .. Len(ret.responses) : ret.log[i].uid = ret.uids[i]
        /\ Len(ret.valid_uids) + Len(ret.invalid_uids) = Len(ret.responses)
        /\ Len(scores) = Len(ret.scores)
        /\ \A p \in 1 .. Len(scores) :
              p \notin Range(ret.uids) => scores[p] = ret.scores[p]

\* a round with one response, of uid 0: its score moved from 1/2 to 3/4 and
\* the score 1/2 of uid 1 stayed
C30_Witness ==
    /\ ret.op = "process_responses"
    /\ ret.uids = << 1 >>
    /\ Len(ret.log) = 1
    /\ ret.scores = << R(1, 2), R(1, 2) >>
    /\ scores = << R(3, 4), R(1, 2) >>

\* C35: after every check_hotkeys call the stored hotkey snapshot equals the
\* registry's current hotkey list position by position, whichever branch
\* ran
C35_SnapshotIsRegistry ==
    ret.op = "check_hotkeys" => hotkeys = Some(MetagraphHotkeys(metagraph))

-----------------------------------------------------------------------------
(* Specification SpecPenalty: get_response_penalties for two responses of a *)
(* hotkey, with the response history and the penalties of the sub-scorers   *)
(* drawn from bounded sets.                                                 *)

\* self.miner_responses: None, an empty dict, or a dict with the records of
\* hotkey 1
PenaltyHistories == { None, Some(<< >>), StateMinerResponses }

PenaltyHotkeys == { 1, 2 }

\* what the three sub-scorers return for a response
PenaltyTriples ==
    [ similarity : PenaltyValues, base : PenaltyValues, duplicate : { Zero, RInt(5) } ]

InitPenalty ==
    /\ metagraph = EMARegistry
    /\ miner_responses \in PenaltyHistories
    /\ score_args \in [ hotkey : PenaltyHotkeys, ext : PenaltyTriples, other : PenaltyTriples ]
    /\ scores = << >>
    /\ hotkeys = None
    /\ blacklisted_miner_hotkeys = None
    /\ max_targets = PageThreshold
    /\ target_group = 0
    /\ step = 0
    /\ last_updated_block = 0
    /\ alpha = One
    /\ state_file = None
    /\ miner_file = None
    /\ validator_min_stake = 0
    /\ prompt = None
    /\ hotkey_blacklisted = FALSE
    /\ recovered = {}
    /\ cycle = << >>
    /\ rounds = 0
    /\ pc = "penalty_call"
    /\ ret = [ op |-> "none" ]

\* get_response_penalties for the response whose sub-scorer penalties are
\* ext and for the one whose penalties are other
GetResponsePenalties ==
    /\ pc = "penalty_call"
    /\ LET history == HistoryOf(miner_responses, score_args.hotkey)
       IN  ret' = [ op |-> "get_response_penalties",
                    penalties |-> apply_penalty(history, score_args.ext),
                    multipliers |-> get_response_penalties(history, score_args.ext),
                    other_penalties |-> apply_penalty(history, score_args.other),
                    other_multipliers |-> get_response_penalties(history, score_args.other) ]
    /\ pc' = "penalty_done"
    /\ UNCHANGED << score_args, validatorVars >>

NextPenalty == GetResponsePenalties

SpecPenalty == InitPenalty /\ [][NextPenalty]_vars

\* the hotkey of the call has no record in self.miner_responses
NoEntries ==
    \/ miner_responses = None
    \/ score_args.hotkey \notin DOMAIN Val(miner_responses)
    \/ Val(miner_responses)[score_args.hotkey] = << >>

FirstContact == [ similarity |-> RInt(5), base |-> RInt(5), duplicate |-> RInt(5) ]

\* C15: for a hotkey without records in the response history, absent or
\* empty history included, apply_penalty returns (5, 5, 5) whatever the
\* sub-scorers would return for the response
C15_FirstContactPenalty ==
    ret.op = "get_response_penalties" /\ NoEntries =>
        /\ ret.penalties = FirstContact
        /\ ret.other_penalties = FirstContact

\* a hotkey that a non-empty history does not know, for a response the base
\* sub-scorer would give 20
C15_Witness ==
    /\ ret.op = "get_response_penalties"
    /\ miner_responses # None
    /\ DOMAIN Val(miner_responses) # {}
    /\ score_args.hotkey \notin DOMAIN Val(miner_responses)
    /\ score_args.ext.base = RInt(20)
    /\ score_args.other.base = Zero
    /\ ret.penalties = FirstContact

\* the penalty that decides the speed multiplier
SpeedPenalty(p) == RAdd(p.similarity, p.duplicate)

\* C16: both multipliers are in [0,1]; the distance multiplier is 0 for a
\* base penalty of 20 or more, 1 for one that is not positive, and does not
\* increase with the base penalty; the same holds of the speed multiplier
\* and similarity + duplicate; penalties (5, 5, 5) give 0.75 and 0.5
C16_MultipliersBounded ==
    ret.op = "get_response_penalties" =>
        LET p == ret.penalties
            m == ret.multipliers
            q == ret.other_penalties
            n == ret.other_multipliers
        IN  /\ InUnit(m.distance) /\ InUnit(m.speed)
            /\ RGe(p.base, RInt(20)) => m.distance = Zero
            /\ RGe(SpeedPenalty(p), RInt(20)) => m.speed = Zero
            /\ RLe(p.base, Zero) => m.distance = One
            /\ RLe(SpeedPenalty(p), Zero) => m.speed = One
            /\ RLe(p.base, q.base) => RLe(n.distance, m.distance)
            /\ RLe(SpeedPenalty(p), SpeedPenalty(q)) => RLe(n.speed, m.speed)
            /\ p = FirstContact => m.distance = R(3, 4) /\ m.speed = R(1, 2)

\* sub-scorer penalties (5, 5, 5) for a known hotkey give 0.75 and 0.5; a
\* base penalty of 10 gives the smaller distance multiplier 0.5
C16_Witness ==
    /\ ret.op = "get_response_penalties"
    /\ ~NoEntries
    /\ ret.penalties = FirstContact
    /\ ret.multipliers.distance = R(3, 4)
    /\ ret.multipliers.speed = R(1, 2)
    /\ ret.other_penalties.base = RInt(10)
    /\ ret.other_multipliers.distance = R(1, 2)

-----------------------------------------------------------------------------
(* Specification SpecHistory: records appended to the histories of two      *)
(* hotkeys, truncate_miner_state after each append.  The records of a       *)
(* hotkey are numbered 1, 2, ... in the order of their append.              *)

\* at most MaxAppends records are appended for a hotkey
MaxAppends == 102

HistoryHotkeys == { 1, 2 }

InitHistory ==
    /\ IdleValidator
    /\ score_args = NoArgs
    /\ pc = "run"
    /\ ret = [ op |-> "none" ]

\* the number of the record appended last for hotkey, 0 if there is none
LastRecord(hotkey) ==
    IF miner_responses = None THEN 0
    ELSE IF hotkey \notin DOMAIN Val(miner_responses) THEN 0
    ELSE Val(miner_responses)[hotkey][Len(Val(miner_responses)[hotkey])]

\* a record is appended to the history of a hotkey, then truncate_miner_state
AppendResponse ==
    /\ \E hotkey \in HistoryHotkeys :
          /\ LastRecord(hotkey) < MaxAppends
          /\ miner_responses' =
                truncate_miner_state(
                    append_miner_response(miner_responses, hotkey, LastRecord(hotkey) + 1))
          /\ ret' = [ op |-> "append", hotkey |-> hotkey ]
    /\ pc = "run"
    /\ UNCHANGED << metagraph, scores, hotkeys, blacklisted_miner_hotkeys, max_targets,
                    target_group, step, last_updated_block, alpha, state_file,
                    miner_file, validator_min_stake, prompt, hotkey_blacklisted,
                    recovered, pc, score_args, cycle, rounds >>

NextHistory == AppendResponse

SpecHistory == InitHistory /\ [][NextHistory]_vars

\* C5: after any sequence of appends, each followed by truncate_miner_state,
\* the history of every hotkey has at most 100 records
C5_HistoryAtMostCap ==
    miner_responses # None =>
        \A h \in DOMAIN Val(miner_responses) : Len(Val(miner_responses)[h]) <= HistoryCap

\* the append of record 102 to a history that held records 2 .. 101
C5_Witness ==
    /\ ret.op = "append"
    /\ LastRecord(ret.hotkey) = HistoryCap + 2
    /\ Len(Val(miner_responses)[ret.hotkey]) = HistoryCap
    /\ Val(miner_responses)[ret.hotkey][1] = 3

-----------------------------------------------------------------------------
(* Specification SpecBlacklist: check_blacklisted_miner_hotkeys with the    *)
(* local file and the answer of the blacklist API in any condition.         *)

\* a source holds lists of at most MaxEntries entries
MaxEntries == 2

\* the entries of a source: two hotkeys, and an object without hotkey
BlacklistEntries == { Entry(1), Entry(2), [ reason |-> "r" ] }

BlacklistBodies == UNION { [ 1 .. n -> BlacklistEntries ] : n \in 0 .. MaxEntries }

\* miner_blacklist.json: absent, unreadable, not UTF-8, not JSON, or JSON
LocalSources ==
    { [ kind |-> k, body |-> << >> ] : k \in { "absent", "oserror", "notutf8", "notjson" } }
    \cup { [ kind |-> "json", body |-> b ] : b \in BlacklistBodies }

\* the answer of the blacklist API: none in time, no connection, a status
\* other than 200 (with a body), a body that is not JSON, or JSON
RemoteSources ==
    { [ kind |-> k, body |-> << >> ] : k \in { "timeout", "connection", "notjson" } }
    \cup { [ kind |-> "status", body |-> << Entry(1) >> ] }
    \cup { [ kind |-> "json", body |-> b ] : b \in BlacklistBodies }

InitBlacklist ==
    /\ IdleValidator
    /\ score_args = NoArgs
    /\ pc = "run"
    /\ ret = [ op |-> "none" ]

\* check_blacklisted_miner_hotkeys with the sources of the round, at most
\* MaxRounds times; an exception leaves self.blacklisted_miner_hotkeys as it
\* was
RefreshBlacklist ==
    /\ pc = "run"
    /\ rounds < MaxRounds
    /\ \E local \in LocalSources, remote \in RemoteSources :
       \E outcome \in { check_blacklisted_miner_hotkeys_outcome(local, remote) } :
          /\ blacklisted_miner_hotkeys' =
                IF outcome = "return"
                THEN check_blacklisted_miner_hotkeys(local, remote)
                ELSE blacklisted_miner_hotkeys
          /\ ret' = [ op |-> "check_blacklisted_miner_hotkeys", outcome |-> outcome,
                      local |-> local, remote |-> remote ]
    /\ UNCHANGED << metagraph, scores, hotkeys, max_targets, target_group,
                    miner_responses, step, last_updated_block, alpha, state_file,
                    miner_file, validator_min_stake, prompt, hotkey_blacklisted,
                    recovered, pc, score_args, cycle >>
    /\ rounds' = rounds + 1

NextBlacklist == RefreshBlacklist

SpecBlacklist == InitBlacklist /\ [][NextBlacklist]_vars

\* the hotkeys of the entries of a list, as a set
HotkeySet(list) == { list[i].hotkey : i \in { j \in 1 .. Len(list) : "hotkey" \in DOMAIN list[j] } }

\* whether a source holds a list that passes the schema validation
ValidList(src) ==
    /\ src.kind = "json"
    /\ src.body # << >>
    /\ \A i \in 1 .. Len(src.body) : "hotkey" \in DOMAIN src.body[i]

\* the hotkeys a source should contribute: those of its valid list
Contribution(src) == IF ValidList(src) THEN HotkeySet(src.body) ELSE {}

\* C11: after check_blacklisted_miner_hotkeys the blacklist holds exactly the
\* hotkeys of the valid local list and the valid remote list, each once
C11_UnionDeduplicated ==
    ret.op = "check_blacklisted_miner_hotkeys" /\ ret.outcome = "return" =>
        LET bl == Val(blacklisted_miner_hotkeys)
        IN  /\ { bl[i] : i \in 1 .. Len(bl) } = Contribution(ret.local) \cup Contribution(ret.remote)
            /\ \A i, j \in 1 .. Len(bl) : bl[i] = bl[j] => i = j

\* C12: a source that is absent, unreadable, not JSON or not valid
\* contributes nothing; check_blacklisted_miner_hotkeys still returns and
\* the blacklist holds the hotkeys of the other source
C12_FailedSourceIsEmpty ==
    ret.op = "check_blacklisted_miner_hotkeys" =>
        /\ ret.outcome = "return"
        /\ blacklisted_miner_hotkeys # None
        /\ LET bl == Val(blacklisted_miner_hotkeys)
           IN  /\ ~ValidList(ret.local) =>
                     { bl[i] : i \in 1 .. Len(bl) } = Contribution(ret.remote)
               /\ ~ValidList(ret.remote) =>
                     { bl[i] : i \in 1 .. Len(bl) } = Contribution(ret.local)

-----------------------------------------------------------------------------
(* Specification SpecMinerState: load_miner_state at the start of a         *)
(* process, with miners.pickle in any condition.                            *)

\* a hotkey's list in a history file has at most MaxRecords records
MaxRecords == 2

RecordLists == UNION { [ 1 .. n -> { 1, 2 } ] : n \in 1 .. MaxRecords }

\* the histories a file can hold: a dict from some of the hotkeys 1 and 2
\* to their records
MinerContents ==
    UNION { [ H -> RecordLists ] : H \in SUBSET HistoryHotkeys }

\* miners.pickle as the start finds it: absent, written by save_miner_state,
\* or not deserializable (a write that was cut short)
MinerFiles ==
    { None }
    \cup { save_miner_state(Some(c)) : c \in MinerContents }
    \cup { Some(MinerFile(FALSE, Some(c))) : c \in MinerContents }

InitMinerState ==
    /\ metagraph = EMARegistry
    /\ miner_file \in MinerFiles
    /\ validator_min_stake = 0
    /\ prompt = None
    /\ hotkey_blacklisted = FALSE
    /\ miner_responses = None
    /\ scores = << >>
    /\ hotkeys = None
    /\ blacklisted_miner_hotkeys = None
    /\ max_targets = PageThreshold
    /\ target_group = 0
    /\ step = 0
    /\ last_updated_block = 0
    /\ alpha = One
    /\ state_file = None
    /\ recovered = {}
    /\ cycle = << >>
    /\ rounds = 0
    /\ score_args = NoArgs
    /\ pc = "start"
    /\ ret = [ op |-> "none" ]

LoadMinerState ==
    /\ pc = "start"
    /\ LET r == load_miner_state(miner_responses, miner_file, recovered)
       IN  /\ miner_responses' = r.miner_responses
           /\ miner_file' = r.miner_file
           /\ recovered' = r.recovered
    /\ ret' = [ op |-> "load_miner_state", file |-> miner_file ]
    /\ pc' = "run"
    /\ UNCHANGED << metagraph, scores, hotkeys, blacklisted_miner_hotkeys, max_targets,
                    target_group, step, last_updated_block, alpha, state_file,
                    validator_min_stake, prompt, hotkey_blacklisted, score_args, cycle, rounds >>

NextMinerState == LoadMinerState

SpecMinerState == InitMinerState /\ [][NextMinerState]_vars

\* C18: when load_miner_state finds a history file that cannot be
\* deserialized, it returns, the history is empty, no file is left at the
\* path and the file is under the .autorecovery path
C18_CorruptHistoryRecovered ==
    ( /\ ret.op = "load_miner_state"
      /\ ret.file # None
      /\ ~Val(ret.file).readable )
    => /\ pc = "run"
       /\ miner_responses = None
       /\ miner_file = None
       /\ [ path |-> MinerAutorecoveryPath, content |-> Val(ret.file) ] \in recovered

\* a file that held the records of both hotkeys and could not be read
C18_Witness ==
    /\ ret.op = "load_miner_state"
    /\ ret.file # None
    /\ ~Val(ret.file).readable
    /\ DOMAIN Val(Val(ret.file).content) = HistoryHotkeys
    /\ miner_responses = None
    /\ recovered # {}

-----------------------------------------------------------------------------
(* Specification SpecLoad: load_state at the start of a process, with a     *)
(* state.pt whose dict has any of the fields of save_state.                 *)

\* the registries of this specification: one worker, or two
LoadRegistries == { << Worker(1, 1, "10.0.0.1") >>, EMARegistry }

\* the reputation vectors a state file can hold
LoadScores == { << R(1, 2) >>, << R(1, 2), One >> }

\* state.pt as the start finds it: a dict with some of the fields, saved at
\* step 7 and block 9 with hotkey 3 blacklisted
LoadFiles ==
    { Some(StateFile(TRUE, fields, 7, sc, Some([ p \in 1 .. Len(sc) |-> p ]), 9,
                     Some(<< 3 >>)))
        : fields \in SUBSET StateFields, sc \in LoadScores }

InitLoad ==
    /\ metagraph \in LoadRegistries
    /\ state_file \in LoadFiles
    /\ hotkeys = Some(MetagraphHotkeys(metagraph))
    /\ miner_file = None
    /\ validator_min_stake = 0
    /\ prompt = None
    /\ hotkey_blacklisted = FALSE
    /\ miner_responses = None
    /\ scores = << >>
    /\ blacklisted_miner_hotkeys = None
    /\ max_targets = PageThreshold
    /\ target_group = 0
    /\ step = 0
    /\ last_updated_block = 0
    /\ alpha = One
    /\ recovered = {}
    /\ cycle = << >>
    /\ rounds = 0
    /\ score_args = NoArgs
    /\ pc = "start"
    /\ ret = [ op |-> "none" ]

LoadState ==
    /\ pc = "start"
    /\ LET new == load_state(Fields, metagraph)
       IN  /\ step' = new.step
           /\ scores' = new.scores
           /\ hotkeys' = new.hotkeys
           /\ last_updated_block' = new.last_updated_block
           /\ blacklisted_miner_hotkeys' = new.blacklisted_miner_hotkeys
           /\ state_file' = new.state_file
           /\ recovered' = new.recovered
    /\ ret' = [ op |-> "load_state", file |-> state_file ]
    /\ pc' = "run"
    /\ UNCHANGED << metagraph, max_targets, target_group, miner_responses, alpha,
                    miner_file, validator_min_stake, prompt, hotkey_blacklisted, score_args, cycle, rounds >>

NextLoad == LoadState

SpecLoad == InitLoad /\ [][NextLoad]_vars

\* load_state has renamed the file and the fields are the fresh defaults
FreshDefaultState ==
    /\ state_file = None
    /\ [ path |-> AutorecoveryPath, content |-> Val(ret.file) ] \in recovered
    /\ scores = init_default_scores(metagraph)
    /\ step = 0
    /\ last_updated_block = 0
    /\ hotkeys = None
    /\ blacklisted_miner_hotkeys = None

\* C19 as stated: a state file that lacks any one of its five fields is
\* renamed and the fresh default state is used
C19_AnyMissingFieldResets ==
    ( /\ ret.op = "load_state"
      /\ \E f \in StateFields : Val(ret.file).fields = StateFields \ { f } )
    => FreshDefaultState

\* C19 amended: a state file that lacks step, scores, hotkeys or
\* last_updated_block is renamed and the fresh default state is used; a
\* file that lacks only blacklisted_miner_hotkeys is loaded, and the
\* blacklist in memory stays as it was
C19_RequiredFieldMissingResets ==
    ret.op = "load_state" =>
        /\ (\E f \in { "step", "scores", "hotkeys", "last_updated_block" } :
                f \notin Val(ret.file).fields) => FreshDefaultState
        /\ Val(ret.file).fields = StateFields \ { "blacklisted_miner_hotkeys" } =>
              /\ state_file = ret.file
              /\ recovered = {}
              /\ scores = Val(ret.file).scores
              /\ step = Val(ret.file).step
              /\ hotkeys = Val(ret.file).hotkeys
              /\ last_updated_block = Val(ret.file).last_updated_block
              /\ blacklisted_miner_hotkeys = None

\* a file of one score that lacks only last_updated_block, loaded with a
\* registry of two workers: step, scores and hotkeys had been read from it
C19_Witness ==
    /\ ret.op = "load_state"
    /\ Val(ret.file).fields = StateFields \ { "last_updated_block" }
    /\ Len(Val(ret.file).scores) = 1
    /\ scores = << Zero, Zero >>
    /\ step = 0
    /\ state_file = None

-----------------------------------------------------------------------------
(* Specification SpecCrash: the process saves its state with save_state and *)
(* may crash at any point, before, during or after the write; a new process *)
(* then starts and calls load_state.                                        *)

\* state.pt of the previous save: step 7, block 9, hotkey 3 blacklisted
SavedBefore ==
    { save_state(7, sc, Some([ p \in 1 .. Len(sc) |-> p ]), 9, Some(<< 3 >>))
        : sc \in LoadScores }

\* the fields of the running process: another step, block and blacklist,
\* and scores for the registry
InitCrash ==
    /\ metagraph \in LoadRegistries
    /\ state_file \in SavedBefore
    /\ scores \in [ 1 .. Len(metagraph) -> { Zero, R(1, 4) } ]
    /\ hotkeys = Some(MetagraphHotkeys(metagraph))
    /\ step = 8
    /\ last_updated_block = 10
    /\ blacklisted_miner_hotkeys = Some(<< 4 >>)
    /\ miner_file = None
    /\ validator_min_stake = 0
    /\ prompt = None
    /\ hotkey_blacklisted = FALSE
    /\ miner_responses = None
    /\ max_targets = PageThreshold
    /\ target_group = 0
    /\ alpha = One
    /\ recovered = {}
    /\ cycle = << >>
    /\ rounds = 0
    /\ score_args = NoArgs
    /\ pc = "run"
    /\ ret = [ op |-> "none" ]

crashFrame == << metagraph, max_targets, target_group, miner_responses, alpha,
                 miner_file, validator_min_stake, prompt, hotkey_blacklisted, score_args, cycle, rounds >>

memoryFields == << step, scores, hotkeys, last_updated_block,
                   blacklisted_miner_hotkeys >>

\* the number of fields that state.pt holds while it is written
Written == Cardinality(Val(state_file).fields)

\* save_state: torch.save opens state.pt for writing
SaveStateOpen ==
    /\ pc = "run"
    /\ ret.op = "none"
    /\ state_file' = writing_state(0, step, scores, hotkeys, last_updated_block,
                                   blacklisted_miner_hotkeys)
    /\ ret' = [ op |-> "save_state", old |-> state_file ]
    /\ pc' = "saving"
    /\ UNCHANGED << memoryFields, recovered, crashFrame >>

\* save_state: torch.save writes the next field
SaveStateWrite ==
    /\ pc = "saving"
    /\ Written < Len(StateFieldOrder)
    /\ state_file' = writing_state(Written + 1, step, scores, hotkeys,
                                   last_updated_block, blacklisted_miner_hotkeys)
    /\ UNCHANGED << memoryFields, recovered, pc, ret, crashFrame >>

\* save_state: torch.save completes the file and returns
SaveStateClose ==
    /\ pc = "saving"
    /\ Written = Len(StateFieldOrder)
    /\ state_file' = save_state(step, scores, hotkeys, last_updated_block,
                                blacklisted_miner_hotkeys)
    /\ pc' = "run"
    /\ UNCHANGED << memoryFields, recovered, ret, crashFrame >>

\* the process crashes: its fields are lost, the files stay
Crash ==
    /\ pc \in { "run", "saving" }
    /\ ret' = [ op |-> "crash",
                old |-> IF ret.op = "save_state" THEN ret.old ELSE state_file,
                new |-> save_state(step, scores, hotkeys, last_updated_block,
                                   blacklisted_miner_hotkeys) ]
    /\ scores' = << >>
    /\ hotkeys' = None
    /\ step' = 0
    /\ last_updated_block' = 0
    /\ blacklisted_miner_hotkeys' = None
    /\ pc' = "crashed"
    /\ UNCHANGED << state_file, recovered, crashFrame >>

\* a new process: setup_bittensor_objects, then load_state
Restart ==
    /\ pc = "crashed"
    /\ LET cur == [ Fields EXCEPT !.hotkeys = Some(MetagraphHotkeys(metagraph)) ]
           new == load_state(cur, metagraph)
       IN  /\ step' = new.step
           /\ scores' = new.scores
           /\ hotkeys' = new.hotkeys
           /\ last_updated_block' = new.last_updated_block
           /\ blacklisted_miner_hotkeys' = new.blacklisted_miner_hotkeys
           /\ state_file' = new.state_file
           /\ recovered' = new.recovered
    /\ ret' = [ op |-> "load_state", old |-> ret.old, new |-> ret.new,
                file |-> state_file ]
    /\ pc' = "loaded"
    /\ UNCHANGED crashFrame

NextCrash ==
    \/ SaveStateOpen
    \/ SaveStateWrite
    \/ SaveStateClose
    \/ Crash
    \/ Restart

SpecCrash == InitCrash /\ [][NextCrash]_vars

\* the five fields are those of a saved state
LoadedFrom(saved) ==
    /\ step = Val(saved).step
    /\ scores = Val(saved).scores
    /\ hotkeys = Val(saved).hotkeys
    /\ last_updated_block = Val(saved).last_updated_block
    /\ blacklisted_miner_hotkeys = Val(saved).blacklisted_miner_hotkeys

\* C20: whenever the process crashed, before, during or after save_state,
\* the load_state of the next process yields the complete state of the
\* previous save, the complete state of the new save, or the fresh default
\* state with the file renamed
C20_SaveIsAllOrNothing ==
    pc = "loaded" =>
        \/ LoadedFrom(ret.old) /\ state_file = ret.old
        \/ LoadedFrom(ret.new) /\ state_file = ret.new
        \/ FreshDefaultState /\ ~Val(ret.file).readable

\* a crash after four of the five fields were written: the file is renamed
\* and the next process starts from the default state
C20_Witness ==
    /\ pc = "loaded"
    /\ ~Val(ret.file).readable
    /\ Cardinality(Val(ret.file).fields) = 4
    /\ FreshDefaultState
    /\ ret.old # ret.new

-----------------------------------------------------------------------------
(* The miner: src/llm_defender/core/miners/miner.py, class LLMDefenderMiner. *)
(* Specification SpecMiner: blacklist() called with any sender hotkey, the  *)
(* miner's metagraph and validator_min_stake drawn from bounded sets.  In   *)
(* this specification an entry of metagraph is [hotkey, stake,              *)
(* validator_permit]: hotkeys[uid], S[uid] and validator_permit[uid].       *)

\* "5G4gJgvAJCRS6ReaH9QxTCvXAuc4ho5fuobR7CMcHs4PRbbX", as a hotkey number
WhitelistedHotkey == 9

\* check_whitelist that knows no hotkey
check_whitelist_Nobody(hotkey) == FALSE

\* check_whitelist; hotkey is Some(string), or None for a value that is no
\* string
check_whitelist(hotkey) ==
    IF hotkey = None
    THEN FALSE
    ELSE Val(hotkey) \in { WhitelistedHotkey }

\* blacklist: the pair (blacklisted, reason)
blacklist(hotkey, m, min_stake) ==
    IF check_whitelist(hotkey)
    THEN << FALSE, "Accepted whitelisted hotkey" >>
    ELSE IF hotkey = None \/ Val(hotkey) \notin Range(MetagraphHotkeys(m))
    THEN << TRUE, "was not found from metagraph.hotkeys" >>
    ELSE LET uid == IndexOf(MetagraphHotkeys(m), Val(hotkey))
         IN  IF ~m[uid].validator_permit
             THEN << TRUE, "is not a validator" >>
             ELSE IF m[uid].stake < min_stake
             THEN << TRUE, "has insufficient stake" >>
             ELSE << FALSE, "Accepted hotkey" >>

\* the miner's metagraph holds at most MaxNeurons neurons
MaxNeurons == 2

Neuron(h, s, vp) == [ hotkey |-> h, stake |-> s, validator_permit |-> vp ]

\* hotkey 3 is never registered
MinerHotkeys == { 1, 2, WhitelistedHotkey }
MinerStakes == { 0, 1, 2 }
MinStakes == { 1, 2 }

\* registries in which no hotkey occurs twice
MinerRegistries ==
    UNION { { m \in [ 1 .. n -> { Neuron(h, s, vp) : h \in MinerHotkeys,
                                    s \in MinerStakes, vp \in BOOLEAN } ] :
                \A p, q \in 1 .. n : m[p].hotkey = m[q].hotkey => p = q }
            : n \in 1 .. MaxNeurons }

\* synapse.dendrite.hotkey
SenderHotkeys == { None } \cup { Some(h) : h \in MinerHotkeys \cup { 3 } }

InitMiner ==
    /\ metagraph \in MinerRegistries
    /\ validator_min_stake \in MinStakes
    /\ prompt = None
    /\ hotkey_blacklisted = FALSE
    /\ scores = << >>
    /\ hotkeys = None
    /\ blacklisted_miner_hotkeys = None
    /\ max_targets = PageThreshold
    /\ target_group = 0
    /\ miner_responses = None
    /\ step = 0
    /\ last_updated_block = 0
    /\ alpha = One
    /\ state_file = None
    /\ miner_file = None
    /\ recovered = {}
    /\ cycle = << >>
    /\ rounds = 0
    /\ score_args = NoArgs
    /\ pc = "run"
    /\ ret = [ op |-> "none" ]

\* the axon calls blacklist for a request
Blacklist ==
    /\ pc = "run"
    /\ \E hotkey \in SenderHotkeys :
          ret' = [ op |-> "blacklist", hotkey |-> hotkey,
                   result |-> blacklist(hotkey, metagraph, validator_min_stake) ]
    /\ UNCHANGED << validatorVars, pc, score_args >>

NextMiner == Blacklist

SpecMiner == InitMiner /\ [][NextMiner]_vars

\* the sender is a registered neuron with a validator permit and enough stake
RegisteredValidator(hotkey) ==
    /\ hotkey # None
    /\ \E p \in 1 .. Len(metagraph) :
          /\ metagraph[p].hotkey = Val(hotkey)
          /\ metagraph[p].validator_permit
          /\ metagraph[p].stake >= validator_min_stake

Whitelisted(hotkey) == hotkey = Some(WhitelistedHotkey)

\* C21: blacklist() accepts a request exactly when the sender hotkey is
\* whitelisted, or is registered in the metagraph with a validator permit
\* and a stake of at least validator_min_stake
C21_AcceptsIffWhitelistedOrValidator ==
    ret.op = "blacklist" =>
        ( ~ret.result[1] <=> ( Whitelisted(ret.hotkey) \/ RegisteredValidator(ret.hotkey) ) )

\* the whitelisted hotkey is accepted although it is not registered
C21_Witness ==
    /\ ret.op = "blacklist"
    /\ Whitelisted(ret.hotkey)
    /\ WhitelistedHotkey \notin Range(MetagraphHotkeys(metagraph))
    /\ ret.result[1] = FALSE

-----------------------------------------------------------------------------
(* Specification SpecLarge: get_uids_to_query on a registry as large as the *)
(* paging threshold or larger, with max_targets around the threshold.       *)

\* the registry has as many workers as the threshold, or one more
LargeSizes == { PageThreshold, PageThreshold + 1 }

\* every worker has stake and an address, except that the workers of uid 0
\* and 1 may have none
LargeRegistries ==
    { [ p \in 1 .. n |-> Worker(p, 1, IF p = 1 THEN a ELSE IF p = 2 THEN b ELSE "10.0.0.1") ]
        : n \in LargeSizes, a \in IpValues, b \in IpValues }

InitLarge ==
    /\ metagraph \in LargeRegistries
    /\ max_targets \in { PageThreshold - 1, PageThreshold, PageThreshold + 1 }
    /\ target_group = 0
    /\ blacklisted_miner_hotkeys \in { None, Some(<< 3 >>), Some(<< 3, 4 >>) }
    /\ scores = << >>
    /\ hotkeys = None
    /\ miner_responses = None
    /\ step = 0
    /\ last_updated_block = 0
    /\ alpha = One
    /\ state_file = None
    /\ miner_file = None
    /\ validator_min_stake = 0
    /\ prompt = None
    /\ hotkey_blacklisted = FALSE
    /\ recovered = {}
    /\ pc = "round"
    /\ ret = [ op |-> "none" ]
    /\ score_args = NoArgs
    /\ cycle = NoCycle
    /\ rounds = 0

NextLarge == GetUidsToQuery

SpecLarge == InitLarge /\ [][NextLarge]_vars

-----------------------------------------------------------------------------
(* Specification SpecRefresh: a round that starts with the blacklist of an  *)
(* earlier round or of the saved state, refreshes it with                   *)
(* check_blacklisted_miner_hotkeys and then selects its targets.            *)

\* self.blacklisted_miner_hotkeys before the round: never set, or with
\* hotkey 1, or with hotkeys 1 and 2
EarlierBlacklists == { None, Some(<< 1 >>), Some(<< 1, 2 >>) }

InitRefresh ==
    /\ metagraph = EMARegistry
    /\ blacklisted_miner_hotkeys \in EarlierBlacklists
    /\ max_targets = PageThreshold
    /\ target_group = 0
    /\ scores = << Zero, Zero >>
    /\ hotkeys = Some(MetagraphHotkeys(EMARegistry))
    /\ miner_responses = None
    /\ step = 0
    /\ last_updated_block = 0
    /\ alpha = One
    /\ state_file = None
    /\ miner_file = None
    /\ validator_min_stake = 0
    /\ prompt = None
    /\ hotkey_blacklisted = FALSE
    /\ recovered = {}
    /\ cycle = << >>
    /\ rounds = 0
    /\ score_args = NoArgs
    /\ pc = "refresh"
    /\ ret = [ op |-> "none" ]

refreshFrame == << metagraph, scores, hotkeys, max_targets, miner_responses, step,
                   last_updated_block, alpha, state_file, miner_file,
                   validator_min_stake, prompt, hotkey_blacklisted, recovered, score_args, cycle, rounds >>

\* check_blacklisted_miner_hotkeys at the start of the round; an exception
\* leaves self.blacklisted_miner_hotkeys as it was and ends the round
RefreshOfRound ==
    /\ pc = "refresh"
    /\ \E local \in LocalSources, remote \in RemoteSources :
       \E outcome \in { check_blacklisted_miner_hotkeys_outcome(local, remote) } :
          /\ blacklisted_miner_hotkeys' =
                IF outcome = "return"
                THEN check_blacklisted_miner_hotkeys(local, remote)
                ELSE blacklisted_miner_hotkeys
          /\ ret' = [ op |-> "check_blacklisted_miner_hotkeys", outcome |-> outcome,
                      local |-> local, remote |-> remote,
                      before |-> blacklisted_miner_hotkeys ]
          /\ pc' = IF outcome = "return" THEN "query" ELSE "raised"
    /\ UNCHANGED << target_group, refreshFrame >>

\* get_uids_to_query of the same round
QueryOfRound ==
    /\ pc = "query"
    /\ LET r == get_uids_to_query(metagraph, blacklisted_miner_hotkeys,
                                  max_targets, target_group)
       IN  /\ target_group' = r.target_group
           /\ ret' = [ op |-> "get_uids_to_query", outcome |-> r.outcome,
                       result |-> r.result, cursor |-> target_group,
                       local |-> ret.local, remote |-> ret.remote,
                       before |-> ret.before ]
    /\ pc' = "done"
    /\ UNCHANGED << blacklisted_miner_hotkeys, refreshFrame >>

NextRefresh ==
    \/ RefreshOfRound
    \/ QueryOfRound

SpecRefresh == InitRefresh /\ [][NextRefresh]_vars

\* the hotkeys that are blacklisted now
BlacklistedNow ==
    IF blacklisted_miner_hotkeys = None THEN {} ELSE Range(Val(blacklisted_miner_hotkeys))

\* the hotkeys that the refresh of the round found in its sources
FoundInSources == Contribution(ret.local) \cup Contribution(ret.remote)

\* C34: after the refresh of a round the blacklist holds the hotkeys that
\* this refresh found in its two sources and no other, whatever it held
\* before: a hotkey found in neither source, also when both sources failed,
\* is not blacklisted any more, and get_uids_to_query returns its worker for
\* querying
C34_RefreshReplaces ==
    /\ pc \in { "query", "raised", "done" } => BlacklistedNow = FoundInSources
    /\ pc = "done" =>
          \A p \in 1 .. Len(metagraph) :
              metagraph[p].hotkey \notin FoundInSources => p \in ToQuery

-----------------------------------------------------------------------------
(* Specification SpecPrompt: rounds of a validator, each one serve_prompt    *)
(* called with the cursor the round starts with and then get_uids_to_query, *)
(* while the registry changes between the calls.  An exception of           *)
(* serve_prompt ends the process, which is started anew.                    *)

\* the rounds of a behaviour
MaxServes == 4

\* what requests.post of get_api_prompt leads to: a 200 answer whose JSON
\* entry passes or fails validate_prompt, or no entry (another status, a
\* timeout, a connection error, an unreadable body)
ApiAnswers == { [ kind |-> "entry", valid |-> TRUE ],
                [ kind |-> "entry", valid |-> FALSE ],
                [ kind |-> "none" ] }

\* mock_data.get_prompt returns an entry or raises
LocalAnswers == { "entry", "raises" }

\* get_api_prompt: the entry of a 200 answer, None otherwise
get_api_prompt(api, synapse_uuid) ==
    IF api.kind = "entry"
    THEN Some([ source |-> "api", synapse_uuid |-> synapse_uuid, valid |-> api.valid ])
    ELSE None

\* validate_prompt(entry): None is not a prompt
validate_prompt(entry) == entry # None /\ Val(entry).valid

\* get_local_prompt: the entry of the local dataset, or RuntimeError
get_local_prompt(local, synapse_uuid) ==
    IF local = "entry"
    THEN [ outcome |-> "return",
           entry |-> Some([ source |-> "local", synapse_uuid |-> synapse_uuid,
                            valid |-> TRUE ]) ]
    ELSE [ outcome |-> "RuntimeError", entry |-> None ]

\* serve_prompt that asks for a prompt whatever the cursor
serve_prompt_EveryRound(tg, pr, synapse_uuid, api, local) ==
    LET entry == get_api_prompt(api, synapse_uuid)
        l == get_local_prompt(local, synapse_uuid)
    IN  IF validate_prompt(entry)
        THEN [ outcome |-> "return", prompt |-> entry, result |-> entry,
               calls |-> << "get_api_prompt" >> ]
        ELSE [ outcome |-> l.outcome,
               prompt |-> IF l.outcome = "return" THEN l.entry ELSE pr,
               result |-> l.entry,
               calls |-> << "get_api_prompt", "get_local_prompt" >> ]

\* serve_prompt(synapse_uuid) with self.target_group = tg and self.prompt =
\* pr: the outcome, the new self.prompt, the value returned and the calls
\* made
serve_prompt(tg, pr, synapse_uuid, api, local) ==
    IF tg = 0
    THEN LET entry == get_api_prompt(api, synapse_uuid)
             l == get_local_prompt(local, synapse_uuid)
         IN  IF ~validate_prompt(entry)
             THEN [ outcome |-> l.outcome,
                    prompt |-> IF l.outcome = "return" THEN l.entry ELSE pr,
                    result |-> l.entry,
                    calls |-> << "get_api_prompt", "get_local_prompt" >> ]
             ELSE [ outcome |-> "return", prompt |-> entry, result |-> entry,
                    calls |-> << "get_api_prompt" >> ]
    ELSE [ outcome |-> "return", prompt |-> pr, result |-> pr, calls |-> << >> ]

InitPrompt ==
    /\ \E m \in Registries(SelectStakes) : metagraph = WithHotkeys(m)
    /\ max_targets \in MaxTargetsValues
    /\ target_group = 0
    /\ prompt = None
    /\ blacklisted_miner_hotkeys = None
    /\ scores = << >>
    /\ hotkeys = None
    /\ miner_responses = None
    /\ step = 0
    /\ last_updated_block = 0
    /\ alpha = One
    /\ state_file = None
    /\ miner_file = None
    /\ validator_min_stake = 0
    /\ hotkey_blacklisted = FALSE
    /\ recovered = {}
    /\ cycle = NoCycle
    /\ rounds = 0
    /\ score_args = NoArgs
    /\ pc = "serve"
    /\ ret = [ op |-> "none" ]

promptFrame == << scores, hotkeys, blacklisted_miner_hotkeys, max_targets,
                 miner_responses, step, last_updated_block, alpha, state_file,
                 miner_file, validator_min_stake, hotkey_blacklisted, recovered,
                 score_args, cycle >>

\* the round's serve_prompt, its synapse_uuid being the number of the round
ServePrompt ==
    /\ pc = "serve"
    /\ rounds < MaxServes
    /\ \E api \in ApiAnswers, local \in LocalAnswers :
       \E r \in { serve_prompt(target_group, prompt, rounds + 1, api, local) } :
          /\ prompt' = r.prompt
          /\ ret' = [ op |-> "serve_prompt", outcome |-> r.outcome,
                      result |-> r.result, calls |-> r.calls,
                      cursor |-> target_group, before |-> prompt ]
          /\ pc' = IF r.outcome = "return" THEN "select" ELSE "raised"
    /\ rounds' = rounds + 1
    /\ UNCHANGED << metagraph, target_group, promptFrame >>

\* the round's get_uids_to_query; the next round follows, also when it raised
SelectOfRound ==
    /\ pc = "select"
    /\ LET r == get_uids_to_query(metagraph, blacklisted_miner_hotkeys,
                                  max_targets, target_group)
       IN  /\ target_group' = r.target_group
           /\ ret' = [ op |-> "get_uids_to_query", outcome |-> r.outcome,
                       result |-> r.result, cursor |-> target_group ]
    /\ pc' = "serve"
    /\ UNCHANGED << metagraph, prompt, rounds, promptFrame >>

\* the process is started anew after serve_prompt raised: __init__ and
\* initialize_neuron
RestartAfterRaise ==
    /\ pc = "raised"
    /\ prompt' = None
    /\ target_group' = 0
    /\ pc' = "serve"
    /\ ret' = [ op |-> "initialize_neuron" ]
    /\ UNCHANGED << metagraph, rounds, promptFrame >>

NextPrompt ==
    \/ ServePrompt
    \/ SelectOfRound
    \/ RestartAfterRaise
    \/ SyncRegister
    \/ SyncDeregister

SpecPrompt == InitPrompt /\ [][NextPrompt]_vars

\* serve_prompt has just been called
Served == ret.op = "serve_prompt"

-----------------------------------------------------------------------------
(* Specification SpecMinerRun: a running miner, its forward() called with   *)
(* any synapse, the analyzer and the history logger in any condition, and   *)
(* its check_remote_blacklist called again and again, the blacklist API     *)
(* answering in any condition.                                              *)

\* the miner's metagraph: hotkey 1 registered, hotkey 2 registered or not
RunRegistries == { << Neuron(1, 1, TRUE) >>,
                   << Neuron(1, 1, TRUE), Neuron(2, 2, TRUE) >> }

InitMinerRun ==
    /\ metagraph \in RunRegistries
    /\ validator_min_stake = 1
    /\ prompt = None
    /\ hotkey_blacklisted = FALSE
    /\ scores = << >>
    /\ hotkeys = None
    /\ blacklisted_miner_hotkeys = None
    /\ max_targets = PageThreshold
    /\ target_group = 0
    /\ miner_responses = None
    /\ step = 0
    /\ last_updated_block = 0
    /\ alpha = One
    /\ state_file = None
    /\ miner_file = None
    /\ recovered = {}
    /\ cycle = << >>
    /\ rounds = 0
    /\ score_args = NoArgs
    /\ pc = "run"
    /\ ret = [ op |-> "none" ]

PromptInjection == "Prompt Injection"

\* synapse.analyzer
AnalyzerNames == { PromptInjection, "prompt injection", "Sensitive Information" }

\* the synapses: the sender, whether validate_signature accepts the
\* signature, the analyzer asked for
Synapses ==
    [ hotkey : { Some(h) : h \in MinerHotkeys \cup { 3 } },
      signature_valid : BOOLEAN,
      analyzer : AnalyzerNames,
      synapse_uuid : { 1 } ]

\* HistoryLogger.mode, from CONFIG.XFairDB
HistoryModes == { "Log", "DB" }

\* self.analyzers["Prompt Injection"].execute returns or raises
ExecuteOutcomes == { "return", "raises" }

\* base.utils.validate_signature(hotkey, data, signature)
validate_signature(synapse) == synapse.signature_valid

\* HistoryLogger.log(synapse): one XFAIR_HISTORY message in mode "Log",
\* nothing in mode "DB"
HistoryLogger_log(mode, synapse) ==
    IF mode = "Log"
    THEN << [ uuid |-> synapse.synapse_uuid, validator_hotkey |-> Val(synapse.hotkey) ] >>
    ELSE << >>

\* forward() that does not verify the signature
forward_Unverified(synapse, m, mode, exec) ==
    IF synapse.analyzer = PromptInjection /\ exec = "return"
          /\ Val(synapse.hotkey) \in Range(MetagraphHotkeys(m))
    THEN [ outcome |-> "return", calls |-> << "execute", "xfair_history.log" >>,
           history |-> HistoryLogger_log(mode, synapse) ]
    ELSE [ outcome |-> "return", calls |-> << >>, history |-> << >> ]

\* forward(synapse): how it ends, the calls it makes in their order, and the
\* history messages written.  The message after the analyzer looks the
\* sender up with metagraph.hotkeys.index, which raises ValueError for a
\* hotkey that is not registered.
forward(synapse, m, mode, exec) ==
    IF ~validate_signature(synapse)
    THEN [ outcome |-> "return", calls |-> << "validate_signature" >>,
           history |-> << >> ]
    ELSE IF synapse.analyzer = PromptInjection
    THEN IF exec = "raises"
         THEN [ outcome |-> "Exception",
                calls |-> << "validate_signature", "execute" >>,
                history |-> << >> ]
         ELSE IF Val(synapse.hotkey) \notin Range(MetagraphHotkeys(m))
         THEN [ outcome |-> "ValueError",
                calls |-> << "validate_signature", "execute" >>,
                history |-> << >> ]
         ELSE [ outcome |-> "return",
                calls |-> << "validate_signature", "execute", "xfair_history.log" >>,
                history |-> HistoryLogger_log(mode, synapse) ]
    ELSE [ outcome |-> "return", calls |-> << "validate_signature" >>,
           history |-> << >> ]

\* the axon calls forward for a request
Forward ==
    /\ pc = "run"
    /\ \E synapse \in Synapses, mode \in HistoryModes, exec \in ExecuteOutcomes :
       \E r \in { forward(synapse, metagraph, mode, exec) } :
          ret' = [ op |-> "forward", synapse |-> synapse, mode |-> mode,
                   outcome |-> r.outcome, calls |-> r.calls,
                   history |-> r.history ]
    /\ UNCHANGED << validatorVars, pc, score_args >>

\* forward() made the call
Called(name) == \E i \in 1 .. Len(ret.calls) : ret.calls[i] = name

\* C37: forward() executes the analyzer and calls the history logger only
\* after validate_signature accepted the synapse and only for the analyzer
\* name "Prompt Injection"; for a synapse whose signature fails or whose
\* analyzer name is another one it returns without executing the analyzer
\* and without a history message
C37_AnalyzerOnlyForVerified ==
    ret.op = "forward" =>
        /\ Called("execute") \/ Called("xfair_history.log") \/ ret.history # << >> =>
              /\ ret.synapse.signature_valid
              /\ ret.synapse.analyzer = PromptInjection
              /\ ret.calls[1] = "validate_signature"
        /\ ~ret.synapse.signature_valid \/ ret.synapse.analyzer # PromptInjection =>
              /\ ret.outcome = "return"
              /\ ~Called("execute")
              /\ ~Called("xfair_history.log")
              /\ ret.history = << >>

\* a verified synapse for "Prompt Injection" of the registered hotkey 1:
\* the analyzer ran and one history message was written
C37_Witness ==
    /\ ret.op = "forward"
    /\ ret.synapse.signature_valid
    /\ ret.synapse.hotkey = Some(1)
    /\ ret.calls = << "validate_signature", "execute", "xfair_history.log" >>
    /\ Len(ret.history) = 1

\* self.wallet.hotkey.ss58_address of the miner
MinerOwnHotkey == 1

\* how the try block of the miner's check_remote_blacklist is left: the
\* exception of requests.get or res.json(), "none" without one
RemoteException(src) ==
    CASE src.kind = "timeout" -> "ReadTimeout"
      [] src.kind = "connection" -> "ConnectionError"
      [] src.kind = "notjson" -> "JSONDecodeError"
      [] OTHER -> "none"

\* the except clauses of the miner's check_remote_blacklist
MinerHandlers == { "ReadTimeout", "JSONDecodeError", "ConnectionError", "Exception" }

\* the miner's check_remote_blacklist that does not look at the status code
miner_check_remote_blacklist_AnyStatus(flag, src) ==
    [ outcome |-> "return",
      hotkey_blacklisted |->
          IF src.kind \in { "json", "status" } /\ validate_miner_blacklist(src.body)
          THEN \E i \in 1 .. Len(src.body) : src.body[i].hotkey = MinerOwnHotkey
          ELSE flag ]

\* the miner's check_remote_blacklist with self.hotkey_blacklisted = flag and
\* the answer src of the blacklist API (kind "json" is a 200 answer with a
\* JSON body): how it ends and the new self.hotkey_blacklisted
miner_check_remote_blacklist(flag, src) ==
    LET e == RemoteException(src)
    IN  [ outcome |-> IF e = "none" \/ e \in MinerHandlers \/ "Exception" \in MinerHandlers
                      THEN "return" ELSE e,
          hotkey_blacklisted |->
              IF e = "none" /\ src.kind = "json" /\ validate_miner_blacklist(src.body)
              THEN \E i \in 1 .. Len(src.body) : src.body[i].hotkey = MinerOwnHotkey
              ELSE flag ]

CheckRemoteBlacklist ==
    /\ pc = "run"
    /\ \E src \in RemoteSources :
       \E r \in { miner_check_remote_blacklist(hotkey_blacklisted, src) } :
          /\ hotkey_blacklisted' = r.hotkey_blacklisted
          /\ ret' = [ op |-> "check_remote_blacklist", outcome |-> r.outcome,
                      src |-> src, before |-> hotkey_blacklisted ]
    /\ UNCHANGED << metagraph, scores, hotkeys, blacklisted_miner_hotkeys,
                    max_targets, target_group, miner_responses, step,
                    last_updated_block, alpha, state_file, miner_file,
                    validator_min_stake, prompt, recovered, cycle, rounds, pc,
                    score_args >>

NextMinerRun ==
    \/ Forward
    \/ CheckRemoteBlacklist

SpecMinerRun == InitMinerRun /\ [][NextMinerRun]_vars

-----------------------------------------------------------------------------
(* Specification SpecTruncate: truncate_miner_state called on histories of   *)
(* any length, as load_miner_state may have read them from miners.pickle.   *)

\* the longest history read from the file
MaxLoaded == 103

\* the lengths of the histories: around the cap, and the extremes
LoadedLengths == { 0, 1, HistoryCap - 1, HistoryCap, HistoryCap + 1, MaxLoaded }

\* the history of n records numbered 1 .. n
Records(n) == [ i \in 1 .. n |-> i ]

\* self.miner_responses after load_miner_state: None, or a dict of the
\* histories of some of the hotkeys
LoadedHistories ==
    { None } \cup
    { Some(mr) : mr \in UNION { [ hs -> { Records(n) : n \in LoadedLengths } ]
                                : hs \in SUBSET HistoryHotkeys } }

InitTruncate ==
    /\ IdleValidator
    /\ score_args = NoArgs
    /\ pc = "loaded"
    /\ ret = [ op |-> "none" ]

\* load_miner_state has read the histories
LoadHistories ==
    /\ pc = "loaded"
    /\ miner_responses' \in LoadedHistories
    /\ pc' = "run"
    /\ ret' = [ op |-> "load_miner_state" ]
    /\ UNCHANGED << metagraph, scores, hotkeys, blacklisted_miner_hotkeys,
                    max_targets, target_group, step, last_updated_block, alpha,
                    state_file, miner_file, validator_min_stake, prompt,
                    hotkey_blacklisted, recovered, cycle, rounds, score_args >>

TruncateMinerState ==
    /\ pc = "run"
    /\ miner_responses' = truncate_miner_state(miner_responses)
    /\ ret' = [ op |-> "truncate_miner_state", before |-> miner_responses ]
    /\ UNCHANGED << metagraph, scores, hotkeys, blacklisted_miner_hotkeys,
                    max_targets, target_group, step, last_updated_block, alpha,
                    state_file, miner_file, validator_min_stake, prompt,
                    hotkey_blacklisted, recovered, cycle, rounds, score_args, pc >>

NextTruncate ==
    \/ LoadHistories
    \/ TruncateMinerState

SpecTruncate == InitTruncate /\ [][NextTruncate]_vars

\* C39: truncate_miner_state leaves the hotkeys of the history mapping as
\* they were, keeps of the n records of every hotkey the last min(100, n)
\* in their order, and a second call changes nothing
C39_KeepsLastRecords ==
    ret.op = "truncate_miner_state" =>
        /\ (miner_responses = None) = (ret.before = None)
        /\ miner_responses # None =>
              /\ DOMAIN Val(miner_responses) = DOMAIN Val(ret.before)
              /\ \A h \in DOMAIN Val(miner_responses) :
                    LET old == Val(ret.before)[h]
                        new == Val(miner_responses)[h]
                        n == Len(old)
                        k == Min(HistoryCap, n)
                    IN  /\ Len(new) = k
                        /\ \A i \in 1 .. k : new[i] = old[n - k + i]
        /\ truncate_miner_state(miner_responses) = miner_responses

\* of the MaxLoaded records of hotkey 1 the last 100 are kept, the one
\* record of hotkey 2 is kept
C39_Witness ==
    /\ ret.op = "truncate_miner_state"
    /\ ret.before = Some([ h \in { 1, 2 } |-> IF h = 1 THEN Records(MaxLoaded) ELSE Records(1) ])
    /\ Val(miner_responses)[1][1] = MaxLoaded - HistoryCap + 1
    /\ Len(Val(miner_responses)[1]) = HistoryCap
    /\ Val(miner_responses)[2] = << 1 >>

====
